---------------------------- MODULE Spec2Model ----------------------------
(***************************************************************************)
(* A model of gemfile-go: the Gemfile.lock parser and writer (package      *)
(* lockfile) and the two Gemfile parsers with their selection policy       *)
(* (package gemfile).                                                      *)
(*                                                                         *)
(* Text is modelled by its lexical structure.  A lockfile line is a record *)
(*   [ind, k, a, v, p, c]                                                  *)
(* ind  the number of leading spaces,                                      *)
(* k    "hdr" (a section header word), "kv" (`key: value`), "ent"          *)
(*      (`name` or `name (content)`) or "blank",                           *)
(* a    the header word, the key or the name,                              *)
(* v    the value of a kv line: the list of its '|'-separated segments,    *)
(* p    whether an ent line has a parenthesis,                             *)
(* c    the content of the parenthesis: the list of its ", "-separated     *)
(*      items, each the list of its '-'-separated parts.                   *)
(* Two lines are the same text exactly when the records are equal.         *)
(* A string that the code splits on '-' (a version) is the list of its     *)
(* parts, a string whose '|' matter (a git remote, revision, branch, tag)  *)
(* the list of its segments; the empty string is <<"">> in both.           *)
(***************************************************************************)
EXTENDS Integers, Sequences, FiniteSets, TLC

VARIABLES
    input,           \* lockfile.Parse: the lines of the reader
    pos,             \* lockfile.Parse: number of lines scanned
    currentSection,  \* lockfile.Parse: var currentSection string
    currentGem,      \* lockfile.Parse: var currentGem *GemSpec      (<<>> is nil)
    currentGitGem,   \* lockfile.Parse: var currentGitGem *GitGemSpec
    currentPathGem,  \* lockfile.Parse: var currentPathGem *PathGemSpec
    lockfile,        \* lockfile.Parse: the *Lockfile being built / handed to Write
    pc,              \* position in the parse -> write -> parse pipeline
    output,          \* LockfileWriter.Write: what each of the six section calls wrote
    reparsed,        \* the Lockfile parsed from the written text
    manifest,        \* gemfile: the lines of the Gemfile
    gemspecDeps,     \* gemfile: what LoadGemspecDependencies builds from the first .gemspec file
    gemspecFiles,    \* gemfile: the .gemspec files that FindGemspecs finds in this directory
    tsFailed,        \* gemfile: whether ParseWithTreeSitter returned an error inside Parse
    tsResult,        \* gemfile: the *ParsedGemfile of ParseWithTreeSitter
    lineResult,      \* gemfile: the *ParsedGemfile of parseContent
    parseResult,     \* gemfile: the *ParsedGemfile of GemfileParser.Parse
    gpc,             \* gemfile: which of the calls have been made
    gemfileContent,  \* GemfileWriter: the lines of the file at w.filepath
    history,         \* GemfileWriter: the calls made so far, with what each found and returned
    gemspecEnv,      \* GemspecParser: what each tier finds in the file at p.filepath
    tiersRun,        \* GemspecParser.Parse: the tiers run so far, in order
    gemspecReturn,   \* GemspecParser.Parse: the (*GemspecFile, error) returned, <<>> before that
    gemspecPc,       \* GemspecParser.Parse: the tier to run next
    filterCall,      \* FilterGemsByGroups: the arguments of the call, <<>> when there is none
    filterReturn,    \* FilterGemsByGroups: the slice returned, in <<...>>; <<>> before the return
    tree,            \* TreeSitterGemfileParser: the statements of the syntax tree, in text order
    node,            \* TreeSitterGemfileParser: number of statements extractGemfileData is done with
    walker,          \* TreeSitterGemfileParser: p.contextStack and the *ParsedGemfile being filled
    frames,          \* TreeSitterGemfileParser: p.contextStack.current before each statement so far
    scanText,        \* GemfileParser.parseContent: the lines of p.content
    lineNum,         \* GemfileParser.parseContent: lineNum, the number of lines scanned
    scanState,       \* GemfileParser.parseContent: the locals of the loop, or the error returned
    trail            \* GemfileParser.parseContent: currentSource and blockDepth before each line so far

lockVars == <<input, pos, currentSection, currentGem, currentGitGem,
              currentPathGem, lockfile, pc, output, reparsed>>

gemVars == <<manifest, gemspecDeps, gemspecFiles, tsFailed, tsResult, lineResult, parseResult, gpc>>

writerVars == <<gemfileContent, history>>

gemspecVars == <<gemspecEnv, tiersRun, gemspecReturn, gemspecPc>>

filterVars == <<filterCall, filterReturn>>

walkVars == <<tree, node, walker, frames>>

scanVars == <<scanText, lineNum, scanState, trail>>

stepVars == <<walkVars, scanVars>>

otherVars == <<writerVars, gemspecVars, filterVars, stepVars>>

vars == <<lockVars, gemVars, otherVars>>

\* No Gemfile is being parsed.
GemfileIdle ==
    /\ manifest = <<>>
    /\ gemspecDeps = <<>>
    /\ gemspecFiles = <<>>
    /\ tsFailed = FALSE
    /\ tsResult = <<>>
    /\ lineResult = <<>>
    /\ parseResult = <<>>
    /\ gpc = "idle"

\* No Gemfile is being edited.
WriterIdle ==
    /\ gemfileContent = <<>>
    /\ history = <<>>

\* No .gemspec file is being parsed.
GemspecIdle ==
    /\ gemspecEnv = <<>>
    /\ tiersRun = <<>>
    /\ gemspecReturn = <<>>
    /\ gemspecPc = "idle"

\* FilterGemsByGroups is not being called.
FilterIdle ==
    /\ filterCall = <<>>
    /\ filterReturn = <<>>

\* No syntax tree is being walked.
WalkIdle ==
    /\ tree = <<>>
    /\ node = 0
    /\ walker = <<>>
    /\ frames = <<>>

\* No Gemfile is being scanned line by line.
ScanIdle ==
    /\ scanText = <<>>
    /\ lineNum = 0
    /\ scanState = <<>>
    /\ trail = <<>>

StepIdle == WalkIdle /\ ScanIdle

OthersIdle == WriterIdle /\ GemspecIdle /\ FilterIdle /\ StepIdle

-----------------------------------------------------------------------------
(* Strings *)

EmptyStr == <<"">>

\* The strings of the model in ascending byte order (strings.Compare); no
\* string of the list is a proper prefix of another one.
StrOrder == <<"", "2.4.1", "aa", "bb", "cc", "https://gems.example/",
              "https://rubygems.org/", "r1", "r2", "ruby", "v1", "v2", "x86_64">>

Rank(s) == CHOOSE i \in 1..Len(StrOrder) : StrOrder[i] = s

\* strings.Compare(a, b) < 0 on plain strings
StrLess(a, b) == Rank(a) < Rank(b)

RECURSIVE SegLess(_, _)
\* strings.Compare(a, b) < 0 on strings given as lists of segments
SegLess(a, b) ==
    IF a = <<>> THEN b # <<>>
    ELSE IF b = <<>> THEN FALSE
    ELSE IF Head(a) = Head(b) THEN SegLess(Tail(a), Tail(b))
    ELSE StrLess(Head(a), Head(b))

\* strings.Contains(s, "x86") || ... "darwin" || ... "linux" || ... "java",
\* decided part by part: no indicator contains a '-'.
IndicatorParts == {"x86", "x86_64", "darwin", "linux", "java"}

HasPlatformInfo(parts) == \E i \in 1..Len(parts) : parts[i] \in IndicatorParts

-----------------------------------------------------------------------------
(* Lines *)

Line(ind, k, a, v, p, c) == [ind |-> ind, k |-> k, a |-> a, v |-> v, p |-> p, c |-> c]

Hdr(word)      == Line(0, "hdr", word, <<>>, FALSE, <<>>)
Blank          == Line(0, "blank", "", <<>>, FALSE, <<>>)
KV(key, value) == Line(2, "kv", key, value, FALSE, <<>>)
SpecsLine      == Line(2, "kv", "specs", EmptyStr, FALSE, <<>>)
\* fmt.Fprintf(buf, "%s%s (%s)\n", indent, name, content)
Ent(ind, name, content) == Line(ind, "ent", name, <<>>, TRUE, content)
\* buf.WriteString(indent + name + "\n")
Bare(ind, name) == Line(ind, "ent", name, <<>>, FALSE, <<>>)

\* The content of a parenthesis holding the one string s ("" gives `()`).
OneItem(s) == IF s = EmptyStr THEN <<>> ELSE <<s>>

\* strings.TrimSpace(line) of an ent line
TextOf(line) == [a |-> line.a, p |-> line.p, c |-> line.c]
EmptyText == [a |-> "", p |-> FALSE, c |-> <<>>]
TextLine(ind, text) == Line(ind, "ent", text.a, <<>>, text.p, text.c)

SectionWords == {"GEM", "GIT", "PATH", "PLATFORMS", "DEPENDENCIES"}

\* gemSpecRegex: ^ {4}([a-zA-Z0-9\-_]+) \(([^)]+)\)$
MatchesGemSpec(line) ==
    line.k = "ent" /\ line.ind = 4 /\ line.a # "" /\ line.p /\ line.c # <<>>

\* depRegex: ^ {6}([a-zA-Z0-9\-_]+)(?: \(([^)]+)\))?$
MatchesDep(line) ==
    line.k = "ent" /\ line.ind = 6 /\ line.a # "" /\ (line.p => line.c # <<>>)

\* strings.HasPrefix(line, "  key:")
HasKeyPrefix(line, key) == line.k = "kv" /\ line.ind = 2 /\ line.a = key

-----------------------------------------------------------------------------
(* package lockfile: the model built by Parse *)

NewLockfile ==
    [GemSpecs |-> <<>>, GitSpecs |-> <<>>, PathSpecs |-> <<>>, Platforms |-> <<>>,
     Dependencies |-> <<>>, BundledWith |-> EmptyText]

\* Mutant of NewGemSpec: the entry is given a registry URL.
NewGemSpec_mutant(name, version, platform) ==
    [Name |-> name, Version |-> version, Platform |-> platform,
     Dependencies |-> <<>>, SourceURL |-> "https://gems.example/"]

\* &GemSpec{Name: ..., Version: ..., Platform: ...}
NewGemSpec(name, version, platform) ==
    [Name |-> name, Version |-> version, Platform |-> platform,
     Dependencies |-> <<>>, SourceURL |-> ""]

\* &GitGemSpec{}
NewGitGemSpec ==
    [Name |-> "", Version |-> EmptyStr, Remote |-> EmptyStr, Revision |-> EmptyStr,
     Branch |-> EmptyStr, Tag |-> EmptyStr, Dependencies |-> <<>>]

\* &PathGemSpec{}
NewPathGemSpec ==
    [Name |-> "", Version |-> EmptyStr, Remote |-> EmptyStr, Dependencies |-> <<>>]

\* if currentGitGem == nil { currentGitGem = &GitGemSpec{} }
GitOrNew(st) == IF st.git = <<>> THEN NewGitGemSpec ELSE st.git[1]
PathOrNew(st) == IF st.path = <<>> THEN NewPathGemSpec ELSE st.path[1]

\* if currentGem != nil { GemSpecs = append(GemSpecs, *currentGem); currentGem = nil }
FlushGem(st) ==
    IF st.gem = <<>> THEN st
    ELSE [st EXCEPT !.lf.GemSpecs = Append(@, st.gem[1]), !.gem = <<>>]

FlushGit(st) ==
    IF st.git = <<>> THEN st
    ELSE [st EXCEPT !.lf.GitSpecs = Append(@, st.git[1]), !.git = <<>>]

FlushPath(st) ==
    IF st.path = <<>> THEN st
    ELSE [st EXCEPT !.lf.PathSpecs = Append(@, st.path[1]), !.path = <<>>]

\* Mutant of OnHeader: a PATH header leaves the pending path gem in the accumulator.
OnHeader_mutant(st, word) ==
    LET flushed == IF word = "GEM" THEN FlushPath(FlushGit(st))
                   ELSE IF word = "PATH" THEN FlushGit(FlushGem(st))
                   ELSE FlushPath(FlushGit(FlushGem(st)))
    IN  [flushed EXCEPT !.section = word]

\* The `switch line` of Parse: what each header flushes before the section changes.
\* case "GEM" saves the pending git and path gems only.
OnHeader(st, word) ==
    LET flushed == IF word = "GEM" THEN FlushPath(FlushGit(st))
                   ELSE FlushPath(FlushGit(FlushGem(st)))
    IN  [flushed EXCEPT !.section = word]

\* parseConstraints: split on ",", trim, drop the empty items
parseConstraints(content) == SelectSeq(content, LAMBDA s : s # EmptyStr)

\* dep := Dependency{Name: matches[1]}; if matches[2] != "" { dep.Constraints = ... }
DepOf(line) ==
    [Name |-> line.a,
     Constraints |-> IF line.p THEN parseConstraints(line.c) ELSE <<>>]

\* strings.Join(parts[1:], "-")
RestParts(parts) == SubSeq(parts, 2, Len(parts))

\* Mutant of parseVersionAndPlatform: two parts are enough for a split.
parseVersionAndPlatform_mutant(v) ==
    IF Len(v) >= 2 /\ HasPlatformInfo(v)
    THEN [version |-> <<v[1]>>, platform |-> RestParts(v)]
    ELSE [version |-> v, platform |-> EmptyStr]

\* The version/platform split of a GEM entry: parts := strings.Split(v, "-");
\* if len(parts) >= 3 && (an indicator occurs in v) { version = parts[0]; platform = rest }
parseVersionAndPlatform(v) ==
    IF Len(v) >= 3 /\ HasPlatformInfo(v)
    THEN [version |-> <<v[1]>>, platform |-> RestParts(v)]
    ELSE [version |-> v, platform |-> EmptyStr]

\* case "GEM" of the section switch
processGemSection(st, line) ==
    IF MatchesGemSpec(line) THEN
        LET vp == parseVersionAndPlatform(line.c[1])
            saved == IF st.gem = <<>> THEN st
                     ELSE [st EXCEPT !.lf.GemSpecs = Append(@, st.gem[1])]
        IN  [saved EXCEPT !.gem = <<NewGemSpec(line.a, vp.version, vp.platform)>>]
    ELSE IF MatchesDep(line) /\ st.gem # <<>> THEN
        [st EXCEPT !.gem[1].Dependencies = Append(@, DepOf(line))]
    ELSE st

\* case "GIT" of the section switch
processGitSection(st, line) ==
    IF MatchesGemSpec(line) THEN
        [st EXCEPT !.git = <<[GitOrNew(st) EXCEPT !.Name = line.a, !.Version = line.c[1]]>>]
    ELSE IF MatchesDep(line) /\ st.git # <<>> THEN
        [st EXCEPT !.git[1].Dependencies = Append(@, DepOf(line))]
    ELSE st

\* case "PATH" of the section switch
processPathSection(st, line) ==
    IF MatchesGemSpec(line) THEN
        [st EXCEPT !.path = <<[PathOrNew(st) EXCEPT !.Name = line.a, !.Version = line.c[1]]>>]
    ELSE IF MatchesDep(line) /\ st.path # <<>> THEN
        [st EXCEPT !.path[1].Dependencies = Append(@, DepOf(line))]
    ELSE st

\* case "PLATFORMS": any line that starts with two spaces
processPlatformsSection(st, line) ==
    IF line.k = "ent" /\ line.ind >= 2
    THEN [st EXCEPT !.lf.Platforms = Append(@, TextOf(line))]
    ELSE st

\* case "DEPENDENCIES": `name (constraints)`, else the first field of the line
processDependenciesSection(st, line) ==
    IF line.k = "ent" /\ line.ind >= 2 /\ line.a # ""
    THEN [st EXCEPT !.lf.Dependencies =
              Append(@, [Name |-> line.a,
                         Constraints |-> IF line.p /\ line.c # <<>>
                                         THEN parseConstraints(line.c) ELSE <<>>])]
    ELSE st

\* case "BUNDLED_WITH": any line that starts with three spaces
processBundledWithSection(st, line) ==
    IF line.k = "ent" /\ line.ind >= 3
    THEN [st EXCEPT !.lf.BundledWith = TextOf(line)]
    ELSE st

\* One iteration of the scanner loop of Parse.
ParseLine(st, line) ==
    IF line.k = "hdr" /\ line.ind = 0 /\ line.a \in SectionWords THEN
        OnHeader(st, line.a)
    ELSE IF line.k = "hdr" /\ line.ind = 0 /\ line.a = "BUNDLED WITH" THEN
        [st EXCEPT !.section = "BUNDLED_WITH"]
    ELSE IF HasKeyPrefix(line, "remote") THEN
        IF st.section = "GIT" THEN
            [st EXCEPT !.git = <<[GitOrNew(st) EXCEPT !.Remote = line.v]>>]
        ELSE IF st.section = "PATH" THEN
            [st EXCEPT !.path = <<[PathOrNew(st) EXCEPT !.Remote = line.v]>>]
        ELSE st
    ELSE IF HasKeyPrefix(line, "revision") /\ st.section = "GIT" THEN
        [st EXCEPT !.git = <<[GitOrNew(st) EXCEPT !.Revision = line.v]>>]
    ELSE IF HasKeyPrefix(line, "branch") /\ st.section = "GIT" THEN
        [st EXCEPT !.git = <<[GitOrNew(st) EXCEPT !.Branch = line.v]>>]
    ELSE IF HasKeyPrefix(line, "tag") /\ st.section = "GIT" THEN
        [st EXCEPT !.git = <<[GitOrNew(st) EXCEPT !.Tag = line.v]>>]
    ELSE IF HasKeyPrefix(line, "specs") THEN st
    ELSE IF st.section = "GEM" THEN processGemSection(st, line)
    ELSE IF st.section = "GIT" THEN processGitSection(st, line)
    ELSE IF st.section = "PATH" THEN processPathSection(st, line)
    ELSE IF st.section = "PLATFORMS" THEN processPlatformsSection(st, line)
    ELSE IF st.section = "DEPENDENCIES" THEN processDependenciesSection(st, line)
    ELSE IF st.section = "BUNDLED_WITH" THEN processBundledWithSection(st, line)
    ELSE st

\* The state of Parse before the first line.
ParseStart ==
    [section |-> "", gem |-> <<>>, git |-> <<>>, path |-> <<>>, lf |-> NewLockfile]

\* After the loop: "Add the last gem if exists", for the three kinds.
ParseFinish(st) == FlushPath(FlushGit(FlushGem(st))).lf

\* The values of currentSection.
Sections == SectionWords \cup {"", "BUNDLED_WITH"}

\* The scanner loop of Parse over the lines left.  The test on the section
\* makes the state of an iteration a value before the next one starts.
RECURSIVE ParseFrom(_, _)
ParseFrom(st, lines) ==
    IF lines = <<>> \/ st.section \notin Sections THEN ParseFinish(st)
    ELSE ParseFrom(ParseLine(st, Head(lines)), Tail(lines))

\* Parse(reader) as a function of the reader's lines.
Parse(lines) == ParseFrom(ParseStart, lines)

-----------------------------------------------------------------------------
(* package lockfile: LockfileWriter *)

defaultGemRemote == "https://rubygems.org/"

RECURSIVE Flatten(_)
Flatten(seqs) == IF seqs = <<>> THEN <<>> ELSE Head(seqs) \o Flatten(Tail(seqs))

\* The indexes i of keys with keys[i] = k, ascending.
RECURSIVE IndexesOf(_, _, _)
IndexesOf(keys, k, i) ==
    IF i > Len(keys) THEN <<>>
    ELSE (IF keys[i] = k THEN <<i>> ELSE <<>>) \o IndexesOf(keys, k, i + 1)

\* for j := i; j > 0 && cmp(data[j], data[j-1]) < 0; j-- { swap }
\* on the indexes of the data, ordered by the integer keys.
RECURSIVE InsertLast(_, _, _)
InsertLast(sorted, x, keys) ==
    IF sorted # <<>> /\ keys[x] < keys[sorted[Len(sorted)]]
    THEN Append(InsertLast(SubSeq(sorted, 1, Len(sorted) - 1), x, keys), sorted[Len(sorted)])
    ELSE Append(sorted, x)

RECURSIVE SortedIndexes(_, _)
SortedIndexes(keys, n) ==
    IF n = 0 THEN <<>> ELSE InsertLast(SortedIndexes(keys, n - 1), n, keys)

\* slices.SortFunc / slices.Sort on a slice of at most 12 elements: the
\* insertion sort of pdqsort, which keeps equal elements in their order.
\* keys[i] is the integer rank of the string the comparison reads in seq[i].
SortFunc(seq, keys) ==
    LET perm == SortedIndexes(keys, Len(seq))
    IN  [i \in 1..Len(seq) |-> seq[perm[i]]]

\* The distinct values of keys, in order of first occurrence.
RECURSIVE Distinct(_)
Distinct(keys) ==
    IF keys = <<>> THEN <<>>
    ELSE LET rest == Distinct(SubSeq(keys, 1, Len(keys) - 1))
             k == keys[Len(keys)]
         IN  IF \E i \in 1..Len(rest) : rest[i] = k THEN rest ELSE Append(rest, k)

\* The rank of a string given as a list of at most four segments, such that
\* SegRank(a) < SegRank(b) iff SegLess(a, b).
RECURSIVE SegRankFrom(_, _)
SegRankFrom(a, width) ==
    IF width = 0 THEN 0
    ELSE (IF a = <<>> THEN 0 ELSE Rank(Head(a))) * ((Len(StrOrder) + 1) ^ (width - 1))
         + SegRankFrom(IF a = <<>> THEN <<>> ELSE Tail(a), width - 1)

SegRank(a) == SegRankFrom(a, 4)

\* slices.SortFunc(specs, func(a, b) int { return strings.Compare(a.Name, b.Name) })
SortByName_mutant(specs) == specs

SortByName(specs) == SortFunc(specs, [i \in 1..Len(specs) |-> Rank(specs[i].Name)])

\* strings.Join(dep.Constraints, ", ") as the content of a parenthesis
JoinConstraints(constraints) == IF constraints = <<EmptyStr>> THEN <<>> ELSE constraints

writeDependency(dep, indent) ==
    IF Len(dep.Constraints) = 0 THEN Bare(indent, dep.Name)
    ELSE Ent(indent, dep.Name, JoinConstraints(dep.Constraints))

\* deps := copy of spec.Dependencies; slices.SortFunc(deps, by name); write each
writeDependencies(deps, indent) ==
    LET sorted == SortByName(deps)
    IN  [i \in 1..Len(sorted) |-> writeDependency(sorted[i], indent)]

writeGemSpec(spec) ==
    LET version == IF spec.Platform # EmptyStr THEN spec.Version \o spec.Platform
                   ELSE spec.Version
    IN  <<Ent(4, spec.Name, OneItem(version))>> \o writeDependencies(spec.Dependencies, 6)

writeGitGemSpec(spec) ==
    <<Ent(4, spec.Name, OneItem(spec.Version))>> \o writeDependencies(spec.Dependencies, 6)

writePathGemSpec(spec) ==
    <<Ent(4, spec.Name, OneItem(spec.Version))>> \o writeDependencies(spec.Dependencies, 6)

\* source := spec.SourceURL; if source == "" { source = w.DefaultGemRemote }
GemSourceKey(spec) == IF spec.SourceURL = "" THEN defaultGemRemote ELSE spec.SourceURL

\* fmt.Sprintf("%s|%s|%s|%s", spec.Remote, spec.Revision, spec.Branch, spec.Tag)
GitSourceKey(spec) == spec.Remote \o spec.Revision \o spec.Branch \o spec.Tag

PathSourceKey(spec) == spec.Remote

GemSourceKeys(specs)  == [i \in 1..Len(specs) |-> GemSourceKey(specs[i])]
GitSourceKeys(specs)  == [i \in 1..Len(specs) |-> GitSourceKey(specs[i])]
PathSourceKeys(specs) == [i \in 1..Len(specs) |-> PathSourceKey(specs[i])]

\* gemsBySource[source]: the specs of one key, in the order of the model
SpecsOfKey(specs, keys, k) ==
    LET idx == IndexesOf(keys, k, 1)
    IN  [i \in 1..Len(idx) |-> specs[idx[i]]]

writeGemBlock(lf, source, i) ==
    (IF i > 1 THEN <<Blank>> ELSE <<>>)
    \o <<Hdr("GEM"), KV("remote", <<source>>), SpecsLine>>
    \o LET gems == SortByName(SpecsOfKey(lf.GemSpecs, GemSourceKeys(lf.GemSpecs), source))
       IN  Flatten([j \in 1..Len(gems) |-> writeGemSpec(gems[j])])

writeGemSection(lf) ==
    IF Len(lf.GemSpecs) = 0 THEN <<>>
    ELSE LET keys == Distinct(GemSourceKeys(lf.GemSpecs))
             sources == SortFunc(keys, [i \in 1..Len(keys) |-> Rank(keys[i])])
         IN  Flatten([i \in 1..Len(sources) |-> writeGemBlock(lf, sources[i], i)])

\* The gitSource of a key: the fields of the first spec that has the key and
\* all the specs that have it.
GitSourceOf(lf, k) ==
    LET specs == SpecsOfKey(lf.GitSpecs, GitSourceKeys(lf.GitSpecs), k)
    IN  [remote |-> specs[1].Remote, revision |-> specs[1].Revision,
         branch |-> specs[1].Branch, tag |-> specs[1].Tag, specs |-> specs]

writeGitBlock(src) ==
    <<Blank, Hdr("GIT"), KV("remote", src.remote), KV("revision", src.revision)>>
    \o (IF src.branch # EmptyStr THEN <<KV("branch", src.branch)>> ELSE <<>>)
    \o (IF src.tag # EmptyStr THEN <<KV("tag", src.tag)>> ELSE <<>>)
    \o <<SpecsLine>>
    \o LET specs == SortByName(src.specs)
       IN  Flatten([j \in 1..Len(specs) |-> writeGitGemSpec(specs[j])])

\* The map iteration orders of a map with n keys: the permutations of 1..n.
Permutations1(n) == {f \in [1..n -> 1..n] : \A i, j \in 1..n : f[i] = f[j] => i = j}

\* `for _, src := range sourceMap` in the iteration order mapOrder, then
\* slices.SortFunc(sources, by remote)
GitSources(lf, mapOrder) ==
    LET keys == Distinct(GitSourceKeys(lf.GitSpecs))
        ranged == [i \in 1..Len(keys) |-> GitSourceOf(lf, keys[mapOrder[i]])]
    IN  SortFunc(ranged, [i \in 1..Len(ranged) |-> SegRank(ranged[i].remote)])

writeGitSection(lf, mapOrder) ==
    IF Len(lf.GitSpecs) = 0 THEN <<>>
    ELSE LET sources == GitSources(lf, mapOrder)
         IN  Flatten([i \in 1..Len(sources) |-> writeGitBlock(sources[i])])

writePathBlock(lf, remote) ==
    <<Blank, Hdr("PATH"), KV("remote", remote), SpecsLine>>
    \o LET specs == SortByName(SpecsOfKey(lf.PathSpecs, PathSourceKeys(lf.PathSpecs), remote))
       IN  Flatten([j \in 1..Len(specs) |-> writePathGemSpec(specs[j])])

\* The keys of sourceMap are the remotes, so sorting by remote leaves no tie.
writePathSection(lf) ==
    IF Len(lf.PathSpecs) = 0 THEN <<>>
    ELSE LET keys == Distinct(PathSourceKeys(lf.PathSpecs))
             sources == SortFunc(keys, [i \in 1..Len(keys) |-> SegRank(keys[i])])
         IN  Flatten([i \in 1..Len(sources) |-> writePathBlock(lf, sources[i])])

\* Platform strings of the model are bare names.
TextRank(text) == Rank(text.a)

writePlatformsSection_mutant(lf) ==
    IF Len(lf.Platforms) = 0 THEN <<>>
    ELSE LET platforms == SortFunc(lf.Platforms,
                                   [i \in 1..Len(lf.Platforms) |-> TextRank(lf.Platforms[i])])
         IN  <<Blank, Hdr("PLATFORMS")>> \o [i \in 1..Len(platforms) |-> TextLine(2, platforms[i])]

writePlatformsSection(lf) ==
    IF Len(lf.Platforms) = 0 THEN <<>>
    ELSE LET seen == Distinct(lf.Platforms)
             platforms == SortFunc(seen, [i \in 1..Len(seen) |-> TextRank(seen[i])])
         IN  <<Blank, Hdr("PLATFORMS")>> \o [i \in 1..Len(platforms) |-> TextLine(2, platforms[i])]

writeDependenciesSection(lf) ==
    IF Len(lf.Dependencies) = 0 THEN <<>>
    ELSE <<Blank, Hdr("DEPENDENCIES")>> \o writeDependencies(lf.Dependencies, 2)

writeBundledWithSection(lf) ==
    IF lf.BundledWith = EmptyText THEN <<>>
    ELSE <<Blank, Hdr("BUNDLED WITH"), TextLine(3, lf.BundledWith)>>

\* The loop of Write over the six section writers: what iteration i wrote.
\* if !firstSection { buf.WriteString("\n") } follows every call but the first.
WriteChunk(lf, mapOrder, i) ==
    (CASE i = 1 -> writeGemSection(lf)
       [] i = 2 -> writeGitSection(lf, mapOrder)
       [] i = 3 -> writePathSection(lf)
       [] i = 4 -> writePlatformsSection(lf)
       [] i = 5 -> writeDependenciesSection(lf)
       [] OTHER -> writeBundledWithSection(lf))
    \o (IF i > 1 THEN <<Blank>> ELSE <<>>)

\* LockfileWriter.Write: the text written by each of the six iterations.
Write(lf, mapOrder) == [i \in 1..6 |-> WriteChunk(lf, mapOrder, i)]

-----------------------------------------------------------------------------
(* The lockfile texts the model parses *)

\* Bound: the number of blocks (sections) of an input lockfile.
MaxBlocks == 3

GemBlock(remote, body) == <<Hdr("GEM"), KV("remote", <<remote>>), SpecsLine>> \o body

GitBlock(remote, revision, branch, tag, body) ==
    <<Hdr("GIT"), KV("remote", remote), KV("revision", revision)>>
    \o (IF branch # EmptyStr THEN <<KV("branch", branch)>> ELSE <<>>)
    \o (IF tag # EmptyStr THEN <<KV("tag", tag)>> ELSE <<>>)
    \o <<SpecsLine>> \o body

PathBlock(remote, body) == <<Hdr("PATH"), KV("remote", remote), SpecsLine>> \o body

\* Entry bodies: one entry with an edge, two entries with edges.
Bodies ==
    {<<Ent(4, "aa", <<<<"1">>>>), Ent(6, "bb", <<<<">= 1">>, <<"< 2">>>>)>>,
     <<Ent(4, "cc", <<<<"1">>>>), Bare(6, "aa"), Ent(4, "bb", <<<<"2">>>>), Bare(6, "bb")>>}

\* Registry blocks: entries whose version has 1, 2, 3 and 4 parts, with and
\* without a platform indicator; the second block names another remote.
GemBlocks ==
    {GemBlock("https://rubygems.org/",
              <<Ent(4, "aa", <<<<"1">>>>), Bare(6, "cc"), Ent(6, "bb", <<<<"~> 2">>>>),
                Ent(4, "bb", <<<<"2", "x86_64", "linux">>>>)>>),
     GemBlock("https://gems.example/",
              <<Ent(4, "cc", <<<<"1", "java">>>>), Ent(4, "aa", <<<<"1", "rc", "2">>>>), Bare(6, "bb"),
                Ent(4, "bb", <<<<"2", "arm64", "darwin", "23">>>>)>>)}

GitBlocks ==
    {GitBlock(<<"r1">>, <<"v1">>, EmptyStr, EmptyStr, body) : body \in Bodies}
    \cup {GitBlock(<<"r2">>, <<"v2">>, <<"main">>, <<"v1">>,
                   <<Ent(4, "bb", <<<<"2">>>>), Bare(6, "cc")>>)}

\* The second block has a stray `revision:` line, which PATH does not read.
PathBlocks ==
    {PathBlock(<<"r1">>, <<Ent(4, "aa", <<<<"1">>>>), Bare(6, "cc")>>),
     PathBlock(<<"r1">>, <<KV("revision", <<"v1">>), Ent(4, "bb", <<<<"2">>>>)>>),
     PathBlock(<<"r2">>, <<Ent(4, "cc", <<<<"1">>>>), Ent(6, "aa", <<<<">= 1">>>>)>>)}

ListBlocks ==
    {<<Hdr("PLATFORMS"), Bare(2, "ruby"), Bare(2, "x86_64"), Bare(2, "ruby"), Blank>>,
     <<Hdr("DEPENDENCIES"), Bare(2, "bb"), Ent(2, "aa", <<<<">= 1">>>>), Blank>>,
     <<Hdr("BUNDLED WITH"), Bare(3, "2.4.1")>>}

Blocks == GemBlocks \cup GitBlocks \cup PathBlocks \cup ListBlocks

-----------------------------------------------------------------------------
(* Parse, then Write, then Parse again *)

ParserState ==
    [section |-> currentSection, gem |-> currentGem, git |-> currentGitGem,
     path |-> currentPathGem, lf |-> lockfile]

Init ==
    /\ \E n \in 0..MaxBlocks : \E blocks \in [1..n -> Blocks] : input = Flatten(blocks)
    /\ pos = 0
    /\ currentSection = ParseStart.section
    /\ currentGem = ParseStart.gem
    /\ currentGitGem = ParseStart.git
    /\ currentPathGem = ParseStart.path
    /\ lockfile = ParseStart.lf
    /\ pc = "parse"
    /\ output = <<>>
    /\ reparsed = NewLockfile
    /\ GemfileIdle
    /\ OthersIdle

\* for scanner.Scan() { line := scanner.Text(); ... }
ReadLine ==
    /\ pc = "parse"
    /\ pos < Len(input)
    /\ LET st == ParseLine(ParserState, input[pos + 1])
       IN  /\ currentSection' = st.section
           /\ currentGem' = st.gem
           /\ currentGitGem' = st.git
           /\ currentPathGem' = st.path
           /\ lockfile' = st.lf
    /\ pos' = pos + 1
    /\ UNCHANGED <<input, pc, output, reparsed, gemVars, otherVars>>

\* The end of input: the last pending entries are added and Parse returns.
EndOfInput ==
    /\ pc = "parse"
    /\ pos = Len(input)
    /\ lockfile' = ParseFinish(ParserState)
    /\ pc' = "parsed"
    /\ UNCHANGED <<input, pos, currentSection, currentGem, currentGitGem,
                   currentPathGem, output, reparsed, gemVars, otherVars>>

\* Mutant of LockfileAfterWrite: writeDependenciesSection sorts
\* lf.Dependencies itself.
LockfileAfterWrite_mutant(lf) == [lf EXCEPT !.Dependencies = SortByName(@)]

\* The Lockfile of the caller when Write has returned.  Every slices.Sort and
\* slices.SortFunc of the writer is given an array of its own: the section
\* writers sort gemsBySource[source] and src.specs, which they fill by append
\* with copies of the entries, `platforms`, made from the keys of a map, and
\* `deps`, made by make and copy from lf.Dependencies; the entry writers sort
\* `deps`, made by make and copy from spec.Dependencies.  Nothing is assigned
\* through lf or through a pointer into one of its slices.
LockfileAfterWrite(lf) == lf

\* Write(lockfile, &buf), for every iteration order of the git source map
DoWrite ==
    /\ pc = "parsed"
    /\ \E mapOrder \in Permutations1(Len(Distinct(GitSourceKeys(lockfile.GitSpecs)))) :
           output' = Write(lockfile, mapOrder)
    /\ lockfile' = LockfileAfterWrite(lockfile)
    /\ pc' = "written"
    /\ UNCHANGED <<input, pos, currentSection, currentGem, currentGitGem,
                   currentPathGem, reparsed, gemVars, otherVars>>

\* Parse(&buf) of the written text
Reparse ==
    /\ pc = "written"
    /\ reparsed' = Parse(Flatten(output))
    /\ pc' = "reparsed"
    /\ UNCHANGED <<input, pos, currentSection, currentGem, currentGitGem,
                   currentPathGem, lockfile, output, gemVars, otherVars>>

Next == ReadLine \/ EndOfInput \/ DoWrite \/ Reparse

Spec == Init /\ [][Next]_vars

-----------------------------------------------------------------------------
(* Round trip *)

\* What TestRoundTrip looks at in an entry.
EntryKey(spec, platform) ==
    <<spec.Name, spec.Version, platform, Len(spec.Dependencies)>>

GemKeys(lf)  == [i \in 1..Len(lf.GemSpecs) |-> EntryKey(lf.GemSpecs[i], lf.GemSpecs[i].Platform)]
GitKeys(lf)  == [i \in 1..Len(lf.GitSpecs) |-> EntryKey(lf.GitSpecs[i], EmptyStr)]
PathKeys(lf) == [i \in 1..Len(lf.PathSpecs) |-> EntryKey(lf.PathSpecs[i], EmptyStr)]

\* Same number of entries, and every entry of a is an entry of b.
SameEntries(a, b) ==
    /\ Len(a) = Len(b)
    /\ \A i \in 1..Len(a) : \E j \in 1..Len(b) : a[i] = b[j]

SameModel(m1, m2) ==
    /\ SameEntries(GemKeys(m1), GemKeys(m2))
    /\ SameEntries(GitKeys(m1), GitKeys(m2))
    /\ SameEntries(PathKeys(m1), PathKeys(m2))
    /\ m1.BundledWith = m2.BundledWith

\* C1: for every accepted lockfile text with model M, Parse(Write(M)) has the
\* same number of GemSpecs, GitSpecs and PathSpecs, the same (name, version,
\* platform) and the same number of dependency edges for each entry, and the
\* same BundledWith string.
C1_RoundTrip == pc = "reparsed" => SameModel(lockfile, reparsed)

-----------------------------------------------------------------------------
(* Blocks of the input text *)

\* The indexes of the header lines of a text.
HeaderIndexes(lines) ==
    SelectSeq([i \in 1..Len(lines) |-> i], LAMBDA i : lines[i].k = "hdr")

HeaderWords(lines) ==
    [i \in 1..Len(HeaderIndexes(lines)) |-> lines[HeaderIndexes(lines)[i]].a]

\* The lines of the i-th block of a text, without its header.
BlockLines(lines, i) ==
    LET h == HeaderIndexes(lines)
        last == IF i = Len(h) THEN Len(lines) ELSE h[i + 1] - 1
    IN  SubSeq(lines, h[i] + 1, last)

\* The bodies of the blocks whose header is word, in text order.
BlocksOfKind(lines, word) ==
    LET h == HeaderIndexes(lines)
        idx == SelectSeq([i \in 1..Len(h) |-> i], LAMBDA i : lines[h[i]].a = word)
    IN  [i \in 1..Len(idx) |-> BlockLines(lines, idx[i])]

\* The value of the last `key:` line of a block, "" without one.
LastValue(block, key) ==
    LET at == {i \in 1..Len(block) : HasKeyPrefix(block[i], key)}
    IN  IF at = {} THEN EmptyStr
        ELSE block[CHOOSE i \in at : \A j \in at : j <= i].v

\* The dependency edges written in a block, in text order.
EdgesOf(block) ==
    LET lines == SelectSeq(block, MatchesDep)
    IN  [i \in 1..Len(lines) |-> DepOf(lines[i])]

\* C2: repeated and interleaved GIT and PATH blocks give one entry per block,
\* and the entry of a block carries the remote (for GIT also the revision,
\* branch and tag) and the dependency edges of that block and of no other.
C2_NoCrossContamination ==
    pc = "parsed" =>
        LET gitBlocks == BlocksOfKind(input, "GIT")
            pathBlocks == BlocksOfKind(input, "PATH")
        IN  /\ Len(lockfile.GitSpecs) = Len(gitBlocks)
            /\ Len(lockfile.PathSpecs) = Len(pathBlocks)
            /\ \A i \in 1..Len(gitBlocks) :
                   /\ lockfile.GitSpecs[i].Remote = LastValue(gitBlocks[i], "remote")
                   /\ lockfile.GitSpecs[i].Revision = LastValue(gitBlocks[i], "revision")
                   /\ lockfile.GitSpecs[i].Branch = LastValue(gitBlocks[i], "branch")
                   /\ lockfile.GitSpecs[i].Tag = LastValue(gitBlocks[i], "tag")
                   /\ lockfile.GitSpecs[i].Dependencies = EdgesOf(gitBlocks[i])
            /\ \A i \in 1..Len(pathBlocks) :
                   /\ lockfile.PathSpecs[i].Remote = LastValue(pathBlocks[i], "remote")
                   /\ lockfile.PathSpecs[i].Dependencies = EdgesOf(pathBlocks[i])

\* Two PATH blocks of different remotes with a GIT block between them, parsed.
C2_Witness ==
    /\ pc = "parsed"
    /\ HeaderWords(input) = <<"PATH", "GIT", "PATH">>
    /\ Len(lockfile.PathSpecs) = 2
    /\ Len(lockfile.GitSpecs) = 1
    /\ lockfile.PathSpecs[1].Remote # lockfile.PathSpecs[2].Remote
    /\ lockfile.PathSpecs[2].Dependencies # <<>>
    /\ lockfile.GitSpecs[1].Dependencies # <<>>

\* C8: a registry entry `name (V)` is split into version and platform only
\* if V has at least 3 hyphen-separated parts and contains an indicator; then
\* Version is the first part and Platform the other parts joined by '-'.
\* Otherwise Version is V and Platform is empty.
C8_VersionPlatformSplit ==
    (/\ pc = "parse"
     /\ pos > 0
     /\ currentSection = "GEM"
     /\ MatchesGemSpec(input[pos])) =>
        LET v == input[pos].c[1]
            gem == currentGem[1]
        IN  /\ currentGem # <<>>
            /\ gem.Name = input[pos].a
            /\ IF Len(v) >= 3 /\ (\E i \in 1..Len(v) : v[i] \in IndicatorParts)
               THEN gem.Version = <<v[1]>> /\ gem.Platform = SubSeq(v, 2, Len(v))
               ELSE gem.Version = v /\ gem.Platform = EmptyStr

\* A split entry has just been read, after an entry of 2 parts with an
\* indicator and an entry of 3 parts without one, both kept whole.
C8_Witness ==
    /\ pc = "parse"
    /\ pos > 0
    /\ currentSection = "GEM"
    /\ MatchesGemSpec(input[pos])
    /\ currentGem # <<>>
    /\ currentGem[1].Version = <<"2">>
    /\ currentGem[1].Platform = <<"x86_64", "linux">>
    /\ \E i, j \in 1..Len(lockfile.GemSpecs) :
           /\ lockfile.GemSpecs[i].Version = <<"1", "java">>
           /\ lockfile.GemSpecs[i].Platform = EmptyStr
           /\ lockfile.GemSpecs[j].Version = <<"1", "rc", "2">>
           /\ lockfile.GemSpecs[j].Platform = EmptyStr

-----------------------------------------------------------------------------
(* Write on models built through the API *)

\* Bound: the number of GemSpecs, GitSpecs and PathSpecs of a model, together.
MaxSpecs == 2

Dep(name, constraints) == [Name |-> name, Constraints |-> constraints]

GemPool ==
    {[Name |-> n, Version |-> <<"1">>, Platform |-> EmptyStr,
      Dependencies |-> IF n = "aa" THEN <<Dep("cc", <<>>), Dep("bb", <<<<">= 1">>>>)>> ELSE <<>>,
      SourceURL |-> u] :
        n \in {"aa", "bb"}, u \in {"", "https://rubygems.org/", "https://gems.example/"}}

\* (remote, revision, branch, tag); the last two differ only in where the '|'
\* of "aa|bb|cc" falls between branch and tag.
GitOrigins ==
    {<<<<"r1">>, <<"v1">>, EmptyStr, EmptyStr>>,
     <<<<"r1">>, <<"v2">>, EmptyStr, EmptyStr>>,
     <<<<"r2">>, <<"v1">>, EmptyStr, EmptyStr>>,
     <<<<"r1">>, <<"v1">>, <<"aa", "bb">>, <<"cc">>>>,
     <<<<"r1">>, <<"v1">>, <<"aa">>, <<"bb", "cc">>>>}

GitPool ==
    {[Name |-> n, Version |-> <<"1">>, Remote |-> o[1], Revision |-> o[2],
      Branch |-> o[3], Tag |-> o[4],
      Dependencies |-> IF n = "bb" THEN <<Dep("aa", <<>>)>> ELSE <<>>] :
        n \in {"aa", "bb"}, o \in GitOrigins}

PathPool ==
    {[Name |-> n, Version |-> <<"1">>, Remote |-> <<r>>, Dependencies |-> <<>>] :
        n \in {"aa", "bb"}, r \in {"r1", "r2"}}

PlatformLists ==
    {<<>>, <<[a |-> "ruby", p |-> FALSE, c |-> <<>>]>>,
     <<[a |-> "x86_64", p |-> FALSE, c |-> <<>>], [a |-> "ruby", p |-> FALSE, c |-> <<>>],
       [a |-> "x86_64", p |-> FALSE, c |-> <<>>]>>}

DependencyLists == {<<>>, <<Dep("bb", <<>>), Dep("aa", <<<<">= 1">>>>)>>}

BundledWithValues == {EmptyText, [a |-> "2.4.1", p |-> FALSE, c |-> <<>>]}

\* lockfile is a model with a GemSpecs, b GitSpecs and c PathSpecs.
IsModelOf(a, b, c) ==
    \E g \in [1..a -> GemPool], t \in [1..b -> GitPool], p \in [1..c -> PathPool],
       pl \in PlatformLists, d \in DependencyLists, bw \in BundledWithValues :
        lockfile = [GemSpecs |-> g, GitSpecs |-> t, PathSpecs |-> p, Platforms |-> pl,
                    Dependencies |-> d, BundledWith |-> bw]

InitWrite ==
    /\ input = <<>>
    /\ pos = 0
    /\ currentSection = ParseStart.section
    /\ currentGem = ParseStart.gem
    /\ currentGitGem = ParseStart.git
    /\ currentPathGem = ParseStart.path
    /\ \E a, b, c \in 0..MaxSpecs : a + b + c <= MaxSpecs /\ IsModelOf(a, b, c)
    /\ pc = "parsed"
    /\ output = <<>>
    /\ reparsed = NewLockfile
    /\ GemfileIdle
    /\ OthersIdle

NextWrite == DoWrite \/ Reparse

SpecWrite == InitWrite /\ [][NextWrite]_vars

-----------------------------------------------------------------------------
(* The written text *)

SectionHeaders == <<"GEM", "GIT", "PATH", "PLATFORMS", "DEPENDENCIES", "BUNDLED WITH">>

SectionIndex(word) == CHOOSE i \in 1..Len(SectionHeaders) : SectionHeaders[i] = word

\* The source collection of the i-th section is empty.
SectionIsEmpty(lf, i) ==
    CASE i = 1 -> lf.GemSpecs = <<>>
      [] i = 2 -> lf.GitSpecs = <<>>
      [] i = 3 -> lf.PathSpecs = <<>>
      [] i = 4 -> lf.Platforms = <<>>
      [] i = 5 -> lf.Dependencies = <<>>
      [] OTHER -> lf.BundledWith = EmptyText

\* C9: Write emits the sections in the order GEM, GIT, PATH, PLATFORMS,
\* DEPENDENCIES, BUNDLED WITH, and for a section whose source collection is
\* empty it emits nothing at all, no header and no line.
C9_SectionOrderAndOmission ==
    pc = "written" =>
        /\ LET words == HeaderWords(Flatten(output))
           IN  \A i, j \in 1..Len(words) :
                   i < j => SectionIndex(words[i]) <= SectionIndex(words[j])
        /\ \A i \in 1..Len(SectionHeaders) :
               SectionIsEmpty(lockfile, i) => output[i] = <<>>

\* (remote, revision, branch, tag) of a GitGemSpec
GitOrigin(spec) == <<spec.Remote, spec.Revision, spec.Branch, spec.Tag>>

\* (remote, revision, branch, tag) as written in the header lines of a block
BlockOrigin(block) ==
    <<LastValue(block, "remote"), LastValue(block, "revision"),
      LastValue(block, "branch"), LastValue(block, "tag")>>

\* The registry URL of a GemSpec: an empty SourceURL is the default remote.
GemOrigin(spec) ==
    <<IF spec.SourceURL = "" THEN "https://rubygems.org/" ELSE spec.SourceURL>>

\* The version string of a registry entry line.
FullVersion(spec) ==
    IF spec.Platform # EmptyStr THEN spec.Version \o spec.Platform ELSE spec.Version

\* The number of entry lines `name (version)` in the blocks of the set own.
Emitted(blocks, own, name, version) ==
    Cardinality({bj \in own \X (1..Len(Flatten(blocks))) :
                    /\ bj[2] <= Len(blocks[bj[1]])
                    /\ blocks[bj[1]][bj[2]] = Ent(4, name, OneItem(version))})

\* Every entry is emitted exactly once, inside the block of its own key (keys
\* and versions are those of the entries, blockKeys those of the blocks):
\* text and model agree on the number of entries with a name and version, in
\* the blocks of the key and in all blocks.
EachOnceInOwnBlock(names, versions, keys, blocks, blockKeys) ==
    \A i \in 1..Len(names) :
        LET same == {k \in 1..Len(names) : names[k] = names[i] /\ versions[k] = versions[i]}
            own == {k \in same : keys[k] = keys[i]}
            ownBlocks == {b \in 1..Len(blocks) : blockKeys[b] = keys[i]}
        IN  /\ Emitted(blocks, ownBlocks, names[i], versions[i]) = Cardinality(own)
            /\ Emitted(blocks, 1..Len(blocks), names[i], versions[i]) = Cardinality(same)

\* C10: Write emits exactly one GEM block per distinct SourceURL (the empty
\* one counting as https://rubygems.org/), exactly one GIT block per distinct
\* (remote, revision, branch, tag), exactly one PATH block per distinct
\* remote, and every entry of the model exactly once, in the block of its key.
C10_OneBlockPerKey ==
    pc = "written" =>
        LET text == Flatten(output)
            gemBlocks == BlocksOfKind(text, "GEM")
            gitBlocks == BlocksOfKind(text, "GIT")
            pathBlocks == BlocksOfKind(text, "PATH")
        IN  /\ Len(gemBlocks) =
                   Cardinality({GemOrigin(lockfile.GemSpecs[i]) : i \in 1..Len(lockfile.GemSpecs)})
            /\ Len(gitBlocks) =
                   Cardinality({GitOrigin(lockfile.GitSpecs[i]) : i \in 1..Len(lockfile.GitSpecs)})
            /\ Len(pathBlocks) =
                   Cardinality({lockfile.PathSpecs[i].Remote : i \in 1..Len(lockfile.PathSpecs)})
            /\ EachOnceInOwnBlock(
                   [i \in 1..Len(lockfile.GemSpecs) |-> lockfile.GemSpecs[i].Name],
                   [i \in 1..Len(lockfile.GemSpecs) |-> FullVersion(lockfile.GemSpecs[i])],
                   [i \in 1..Len(lockfile.GemSpecs) |-> GemOrigin(lockfile.GemSpecs[i])],
                   gemBlocks,
                   [b \in 1..Len(gemBlocks) |-> LastValue(gemBlocks[b], "remote")])
            /\ EachOnceInOwnBlock(
                   [i \in 1..Len(lockfile.GitSpecs) |-> lockfile.GitSpecs[i].Name],
                   [i \in 1..Len(lockfile.GitSpecs) |-> lockfile.GitSpecs[i].Version],
                   [i \in 1..Len(lockfile.GitSpecs) |-> GitOrigin(lockfile.GitSpecs[i])],
                   gitBlocks,
                   [b \in 1..Len(gitBlocks) |-> BlockOrigin(gitBlocks[b])])
            /\ EachOnceInOwnBlock(
                   [i \in 1..Len(lockfile.PathSpecs) |-> lockfile.PathSpecs[i].Name],
                   [i \in 1..Len(lockfile.PathSpecs) |-> lockfile.PathSpecs[i].Version],
                   [i \in 1..Len(lockfile.PathSpecs) |-> lockfile.PathSpecs[i].Remote],
                   pathBlocks,
                   [b \in 1..Len(pathBlocks) |-> LastValue(pathBlocks[b], "remote")])

-----------------------------------------------------------------------------
(* package gemfile: the manifest text *)

(***************************************************************************)
(* A manifest is a list of lines, each one statement of the Bundler DSL:   *)
(*   [kind, name, args, do]                                                *)
(* kind  "gem", "source", "group", "platforms", "end", "gemspec", "ruby",  *)
(*       "assign" (`name = 'value'`),                                      *)
(* name  the first quoted string (gem name, URL, version) or the variable, *)
(* args  the other arguments in text order,                                *)
(* do    whether the line ends with ` do`.                                 *)
(* An argument is [t, key, s, syms]: key is "" for a positional argument   *)
(* and the key of a `key: value` pair; t tells what the value is: "str" a  *)
(* quoted string, "var" a bare identifier, "sym" a symbol, "arr" an array  *)
(* of symbols, "false"/"true".  The line parser reads the line as text,    *)
(* the tree-sitter parser reads the syntax tree of the same statements.    *)
(***************************************************************************)
Stmt(kind, name, args, do) == [kind |-> kind, name |-> name, args |-> args, do |-> do]

Arg(t, key, str, syms) == [t |-> t, key |-> key, s |-> str, syms |-> syms]

\* The names of the variables a manifest of the model assigns.
VarNames == <<"va", "vb">>

\* The strings of the model that contain a ':' (the URLs).
ColonStrings == {"https://u0", "https://u1", "https://u2", "https://g.example/r.git"}

\* fmt.Sprintf("https://github.com/%s.git", repo); a URL taken verbatim from
\* the text is the one-piece list <<url>>.
GithubURL(repo) == <<"https://github.com/", repo, ".git">>

\* &Source{Type: ..., URL: ...}
NewSource(type, url) == [Type |-> type, URL |-> url, Branch |-> "", Tag |-> "", Ref |-> ""]

\* GemDependency; a nil pointer is <<>>, a pointer to v is <<v>>.
NewDependency(name, groups, platforms, source) ==
    [Name |-> name, Constraints |-> <<>>, Source |-> source, Groups |-> groups,
     Require |-> <<>>, Platforms |-> platforms]

\* &ParsedGemfile{}
NewParsedGemfile ==
    [Dependencies |-> <<>>, Sources |-> <<>>, RubyVersion |-> "", Gemspecs |-> <<>>]

-----------------------------------------------------------------------------
(* package gemfile: TreeSitterGemfileParser *)

\* newParserContextStack: the default context
newParserContextStack ==
    <<[groups |-> <<"default">>, platforms |-> <<>>, source |-> <<>>, conditional |-> FALSE]>>

Current(stack) == stack[Len(stack)]

\* Mutant of push: the new context shares its lists with the current one, so
\* that the modification shows in the parent as well.
push_mutant(stack, ctx) == Append([stack EXCEPT ![Len(stack)] = ctx], ctx)

\* push: a copy of the current context, modified, becomes the current one
push(stack, ctx) == Append(stack, ctx)

\* pop: back to the parent, if there is one
pop(stack) == IF Len(stack) > 1 THEN SubSeq(stack, 1, Len(stack) - 1) ELSE stack

\* extractPairOption / applyGemOption for one `key: value` pair
applyGemOption(dep, opt) ==
    LET value == IF opt.t \in {"false", "true"} THEN opt.t ELSE opt.s
        gitSource == IF dep.Source = <<>> \/ dep.Source[1].Type # "git"
                     THEN NewSource("git", <<"">>) ELSE dep.Source[1]
    IN  IF opt.t = "arr" THEN
            IF opt.key \in {"platforms", "platform"} THEN [dep EXCEPT !.Platforms = opt.syms]
            ELSE IF opt.key \in {"groups", "group"} THEN [dep EXCEPT !.Groups = opt.syms]
            ELSE dep
        ELSE IF opt.key = "require" THEN
            IF value = "false" THEN [dep EXCEPT !.Require = <<"">>]
            ELSE IF value # "" THEN [dep EXCEPT !.Require = <<value>>]
            ELSE dep
        ELSE IF opt.key \in {"platforms", "platform"} THEN
            IF value # "" THEN [dep EXCEPT !.Platforms = <<value>>] ELSE dep
        ELSE IF opt.key \in {"groups", "group"} THEN
            IF value # "" THEN [dep EXCEPT !.Groups = <<value>>] ELSE dep
        ELSE IF opt.key = "github" THEN
            [dep EXCEPT !.Source = <<NewSource("git", GithubURL(value))>>]
        ELSE IF opt.key = "git" THEN
            [dep EXCEPT !.Source = <<NewSource("git", <<value>>)>>]
        ELSE IF opt.key = "path" THEN
            [dep EXCEPT !.Source = <<NewSource("path", <<value>>)>>]
        ELSE IF opt.key = "branch" THEN
            [dep EXCEPT !.Source = <<[gitSource EXCEPT !.Branch = value]>>]
        ELSE IF opt.key = "tag" THEN
            [dep EXCEPT !.Source = <<[gitSource EXCEPT !.Tag = value]>>]
        ELSE IF opt.key = "ref" THEN
            [dep EXCEPT !.Source = <<[gitSource EXCEPT !.Ref = value]>>]
        ELSE dep

\* extractGemOptions: the pairs of the argument list, in order
RECURSIVE extractGemOptions(_, _)
extractGemOptions(dep, args) ==
    IF args = <<>> THEN dep
    ELSE extractGemOptions(IF Head(args).key # "" THEN applyGemOption(dep, Head(args)) ELSE dep,
                           Tail(args))

\* processGem: the string arguments after the name that hold no ':' are the
\* constraints; groups, platforms and source come from the current context.
\* A call without a string argument is passed over.
processGem(ts, stmt) ==
    LET ctx == Current(ts.stack)
        noArguments == stmt.name = ""
        strings == SelectSeq(stmt.args, LAMBDA a : a.key = "" /\ a.t = "str")
        plain == SelectSeq(strings, LAMBDA a : a.s \notin ColonStrings)
        dep == [NewDependency(stmt.name, ctx.groups, ctx.platforms, ctx.source)
                   EXCEPT !.Constraints = [i \in 1..Len(plain) |-> plain[i].s]]
    IN  IF noArguments THEN ts
        ELSE [ts EXCEPT !.gemfile.Dependencies = Append(@, extractGemOptions(dep, stmt.args))]

\* The symbol arguments of a group or platforms call.
extractSymbolArguments(stmt) ==
    LET symbols == SelectSeq(stmt.args, LAMBDA a : a.key = "" /\ a.t = "sym" /\ a.s # "")
    IN  [i \in 1..Len(symbols) |-> symbols[i].s]

\* processGroup with a do block: push the groups; the block's `end` pops.
processGroup(ts, stmt) ==
    IF extractSymbolArguments(stmt) = <<>> \/ ~stmt.do THEN ts
    ELSE [ts EXCEPT !.stack = push(@, [Current(@) EXCEPT !.groups = extractSymbolArguments(stmt)])]

processPlatform(ts, stmt) ==
    IF extractSymbolArguments(stmt) = <<>> \/ ~stmt.do THEN ts
    ELSE [ts EXCEPT !.stack = push(@, [Current(@) EXCEPT !.platforms = extractSymbolArguments(stmt)])]

processSource(ts, stmt) ==
    LET source == NewSource("rubygems", <<stmt.name>>)
        added == [ts EXCEPT !.gemfile.Sources = Append(@, source)]
    IN  IF stmt.do
        THEN [added EXCEPT !.stack = push(@, [Current(@) EXCEPT !.source = <<source>>])]
        ELSE added

\* processConditional: the body of an if/unless is read in a context marked
\* conditional; the end of the node pops.
processConditional(ts, stmt) ==
    [ts EXCEPT !.stack = push(@, [Current(@) EXCEPT !.conditional = TRUE])]

processRubyVersion(ts, stmt) == [ts EXCEPT !.gemfile.RubyVersion = stmt.name]

\* processGemspec: a reference with the development group only
processGemspec(ts, stmt) ==
    [ts EXCEPT !.gemfile.Gemspecs =
        Append(@, [Path |-> "", Name |-> "", DevelopmentGroup |-> "development", Glob |-> ""])]

\* extractGemfileData / processCall on one statement of the tree.  The blocks
\* of the model are the do blocks of group, platforms and source calls, each
\* of which pushed a context, so the node of a block ends with a pop.
processCall(ts, stmt) ==
    CASE stmt.kind = "gem" -> processGem(ts, stmt)
      [] stmt.kind = "group" -> processGroup(ts, stmt)
      [] stmt.kind = "platforms" -> processPlatform(ts, stmt)
      [] stmt.kind = "source" -> processSource(ts, stmt)
      [] stmt.kind = "ruby" -> processRubyVersion(ts, stmt)
      [] stmt.kind = "gemspec" -> processGemspec(ts, stmt)
      [] stmt.kind = "if" -> processConditional(ts, stmt)
      [] stmt.kind = "end" -> [ts EXCEPT !.stack = pop(@)]
      [] OTHER -> ts

RECURSIVE extractGemfileData(_, _)
extractGemfileData(ts, stmts) ==
    IF stmts = <<>> \/ ts.stack = <<>> THEN ts.gemfile
    ELSE extractGemfileData(processCall(ts, Head(stmts)), Tail(stmts))

\* ParseWithTreeSitter on the tree of a manifest
ParseWithTreeSitter(stmts) ==
    extractGemfileData([stack |-> newParserContextStack, gemfile |-> NewParsedGemfile], stmts)

-----------------------------------------------------------------------------
(* package gemfile: GemfileParser, the line parser *)

\* parseVariable: `name = 'value'` at the start of the line
parseVariable(stmt) ==
    IF stmt.kind = "assign" /\ stmt.args # <<>> /\ stmt.args[1].t = "str" /\ stmt.args[1].s # ""
    THEN <<stmt.name, stmt.args[1].s>> ELSE <<"", "">>

\* isInsideQuotes: the first place of the line where the name occurs is looked
\* at, and an odd number of quotes before it means "inside a string".  The
\* words of the model's lines hold a variable name only as a whole, so the
\* first occurrence is the first argument that is the name, bare or quoted.
isInsideQuotes(stmt, varName) ==
    LET hits == {i \in 1..Len(stmt.args) : stmt.args[i].s = varName}
        first == CHOOSE i \in hits : \A j \in hits : i <= j
    IN  \/ stmt.name = varName /\ stmt.kind # "assign"
        \/ hits # {} /\ stmt.args[first].t = "str"

\* One round of the loop of expandVariables: unless isInsideQuotes,
\* re.ReplaceAllString puts the quoted value for every whole-word occurrence
\* of the name, the bare ones and the ones between quotes alike (the text
\* ''value'' that the latter give is read as the string value).
expandVariable(stmt, varName, varValue) ==
    IF isInsideQuotes(stmt, varName) THEN stmt
    ELSE [stmt EXCEPT !.args = [i \in 1..Len(@) |->
             IF @[i].t \in {"var", "str"} /\ @[i].s = varName
             THEN [@[i] EXCEPT !.t = "str", !.s = varValue] ELSE @[i]]]

\* expandVariables: `for varName, varValue := range variables`; order lists
\* the names in the order this range over the map yields them.
RECURSIVE expandVariables(_, _, _)
expandVariables(stmt, variables, order) ==
    IF order = <<>> \/ stmt.kind = "" THEN stmt
    ELSE expandVariables(
             IF Head(order) \in DOMAIN variables
             THEN expandVariable(stmt, Head(order), variables[Head(order)]) ELSE stmt,
             variables, Tail(order))

\* The option keywords at which extractVersionConstraints cuts the line, in
\* the order it looks for them.
OptionKeywords == <<"require", "github", "path", "groups", "platforms">>

\* strings.Index(remaining, key + ":") over the arguments; 0 when absent
IndexOfKey(args, key) ==
    LET hits == {i \in 1..Len(args) : args[i].key = key}
    IN  IF hits = {} THEN 0 ELSE CHOOSE i \in hits : \A j \in hits : i <= j

\* extractVersionConstraints: every quoted string after the gem name and
\* before the first option keyword that is looked for with success
extractVersionConstraints(args) ==
    LET found == SelectSeq(OptionKeywords, LAMBDA k : IndexOfKey(args, k) # 0)
        optionsStart == IF found = <<>> THEN Len(args) + 1 ELSE IndexOfKey(args, found[1])
        versionPart == SubSeq(args, 1, optionsStart - 1)
        quoted == SelectSeq(versionPart, LAMBDA a : a.t = "str" /\ a.s # "")
    IN  [i \in 1..Len(quoted) |-> quoted[i].s]

\* The first `key: 'value'` of the line with a non-empty quoted value.
QuotedOption(args, key) ==
    SelectSeq(args, LAMBDA a : a.key = key /\ a.t = "str" /\ a.s # "")

\* extractSource: github (with branch), then git, then path
extractSource(args) ==
    IF QuotedOption(args, "github") # <<>> THEN
        LET branch == QuotedOption(args, "branch")
        IN  << [NewSource("git", GithubURL(QuotedOption(args, "github")[1].s)) EXCEPT
                  !.Branch = IF branch # <<>> THEN branch[1].s ELSE @] >>
    ELSE IF QuotedOption(args, "git") # <<>> THEN
        <<NewSource("git", <<QuotedOption(args, "git")[1].s>>)>>
    ELSE IF QuotedOption(args, "path") # <<>> THEN
        <<NewSource("path", <<QuotedOption(args, "path")[1].s>>)>>
    ELSE <<>>

\* extractRequire: `require: false` or `require: 'file'`
extractRequire(args) ==
    LET hits == SelectSeq(args, LAMBDA a : a.key = "require" /\ a.t \in {"false", "str"})
    IN  IF hits = <<>> THEN <<>>
        ELSE IF hits[1].t = "false" THEN <<"">> ELSE <<hits[1].s>>

\* The first array value of one of the keys, as the list of its symbols.
ArrayOption(args, keys) ==
    LET hits == SelectSeq(args, LAMBDA a : a.key \in keys /\ a.t = "arr" /\ a.syms # <<>>)
    IN  IF hits = <<>> THEN <<>> ELSE hits[1].syms

\* extractGroupOverrides: `groups: [...]` or `group: [...]`
extractGroupOverrides(args) == ArrayOption(args, {"groups", "group"})

\* extractPlatforms: the array form, else the single symbol form
extractPlatforms(args) ==
    LET single == SelectSeq(args, LAMBDA a : a.key \in {"platforms", "platform"} /\ a.t = "sym")
    IN  IF ArrayOption(args, {"platforms", "platform"}) # <<>>
        THEN ArrayOption(args, {"platforms", "platform"})
        ELSE IF single # <<>> THEN <<single[1].s>> ELSE <<>>

\* parseGemLine
parseGemLine(stmt, currentGroups, currentSource) ==
    LET dep == NewDependency(stmt.name, currentGroups, <<>>, <<>>)
    IN  [dep EXCEPT
           !.Constraints = extractVersionConstraints(stmt.args),
           !.Source = IF extractSource(stmt.args) # <<>> THEN extractSource(stmt.args)
                      ELSE currentSource,
           !.Require = extractRequire(stmt.args),
           !.Groups = IF Len(extractGroupOverrides(stmt.args)) > 0
                      THEN extractGroupOverrides(stmt.args) ELSE @,
           !.Platforms = extractPlatforms(stmt.args)]

\* parseGroups: every `:word` of the line; "default" when there is none
parseGroups(stmt) ==
    LET symbols == SelectSeq(stmt.args, LAMBDA a : a.t = "sym")
    IN  IF symbols = <<>> THEN <<"default">> ELSE [i \in 1..Len(symbols) |-> symbols[i].s]

\* parseGemspecDirective on a bare `gemspec`: the defaults
parseGemspecDirective(stmt) ==
    [Path |-> ".", Name |-> "", DevelopmentGroup |-> "development", Glob |-> "{,*,*/*}.gemspec"]

\* LoadGemspecDependencies in a directory where FindGemspecs finds the files
\* dir.gemspecs and the first of them yields the dependencies dir.deps (the
\* gem itself and what it declares; none when its Parse fails).  err is <<>>
\* for nil, else the message and the candidates listed in it.
LoadGemspecDependencies_mutant(gemspecRef, dir) ==
    IF Len(dir.gemspecs) = 0
    THEN [deps |-> <<>>, err |-> <<"no gemspec files found in">>]
    ELSE IF dir.deps = <<>>
    THEN [deps |-> <<>>, err |-> <<"failed to parse gemspec", dir.gemspecs[1]>>]
    ELSE [deps |-> dir.deps, err |-> <<>>]

LoadGemspecDependencies(gemspecRef, dir) ==
    IF Len(dir.gemspecs) = 0
    THEN [deps |-> <<>>, err |-> <<"no gemspec files found in">>]
    ELSE IF Len(dir.gemspecs) > 1 /\ gemspecRef.Name = ""
    THEN [deps |-> <<>>,
          err |-> <<"multiple gemspec files found, please specify a name:">> \o dir.gemspecs]
    ELSE IF dir.deps = <<>>
    THEN [deps |-> <<>>, err |-> <<"failed to parse gemspec", dir.gemspecs[1]>>]
    ELSE [deps |-> dir.deps, err |-> <<>>]

\* handleGemspecDirective: the reference, then the dependencies that
\* LoadGemspecDependencies returns; its error is dropped and nil returned
handleGemspecDirective(st, stmt, dir) ==
    LET gemspecRef == parseGemspecDirective(stmt)
        returned == LoadGemspecDependencies(gemspecRef, dir)
        recorded == [st EXCEPT !.result.Gemspecs = Append(@, gemspecRef)]
    IN  IF returned.err # <<>> THEN recorded
        ELSE [recorded EXCEPT !.result.Dependencies = @ \o returned.deps]

\* The error of parseLine: that of parseGemLine for a line that starts with
\* `gem ` in which the regexp finds no quoted name; "" is nil.
parseLineError_mutant(stmt) == ""

parseLineError(stmt) ==
    IF stmt.kind = "gem" /\ stmt.name = "" THEN "invalid gem line" ELSE ""

\* parseLine
parseLine(st, stmt, dir) ==
    CASE stmt.kind = "source" ->
           LET source == NewSource("rubygems", <<stmt.name>>)
               added == [st EXCEPT !.result.Sources = Append(@, source)]
           IN  IF stmt.do THEN [added EXCEPT !.currentSource = <<source>>, !.blockDepth = 1]
               ELSE added
      [] stmt.kind = "group" ->
           [st EXCEPT !.currentGroups = parseGroups(stmt),
                      !.blockDepth = IF stmt.do THEN @ + 1 ELSE @]
      [] stmt.kind = "end" ->
           [st EXCEPT !.blockDepth = @ - 1,
                      !.currentSource = IF st.blockDepth - 1 = 0 THEN <<>> ELSE @,
                      !.currentGroups = <<"default">>]
      [] stmt.kind = "gemspec" -> handleGemspecDirective(st, stmt, dir)
      [] stmt.kind = "gem" ->
           [st EXCEPT !.result.Dependencies =
               Append(@, parseGemLine(stmt, st.currentGroups, st.currentSource))]
      [] stmt.kind = "ruby" -> [st EXCEPT !.result.RubyVersion = stmt.name]
      [] OTHER -> st

\* The scanner loop of parseContent from line i on: an assignment sets the
\* variable, any other line is expanded and parsed, and the error of
\* parseLine ends the loop with `line i: ...` in place of a result (lineNum
\* counts every line the scanner yields, so it is the index i).  orders[i] is the order
\* in which the range over the variables runs while line i is expanded.
RECURSIVE ScanFrom(_, _, _, _, _)
ScanFrom(st, stmts, i, orders, dir) ==
    IF i > Len(stmts) \/ st.blockDepth > Len(stmts) THEN st.result
    ELSE LET var == parseVariable(stmts[i])
             expandedLine == expandVariables(stmts[i], st.variables, orders[i])
             next == IF var[1] # ""
                     THEN [st EXCEPT !.variables =
                             [n \in DOMAIN @ \cup {var[1]} |-> IF n = var[1] THEN var[2] ELSE @[n]]]
                     ELSE parseLine(st, expandedLine, dir)
         IN  IF var[1] = "" /\ parseLineError(expandedLine) # ""
             THEN [err |-> parseLineError(expandedLine), line |-> i]
             ELSE ScanFrom(next, stmts, i + 1, orders, dir)

parseContent(stmts, orders, dir) ==
    ScanFrom([currentGroups |-> <<"default">>, variables |-> << >>, currentSource |-> <<>>,
              blockDepth |-> 0, result |-> NewParsedGemfile],
             stmts, 1, orders, dir)

\* GemfileParser.Parse: the tree-sitter result when it found content and no
\* gemspec directive, else the line parser's.  tsErr tells whether
\* ParseWithTreeSitter returned an error.
UseTreeSitter_mutant(tsErr, gemfile) ==
    /\ ~tsErr
    /\ (Len(gemfile.Dependencies) > 0 \/ gemfile.RubyVersion # "")

UseTreeSitter(tsErr, gemfile) ==
    /\ ~tsErr
    /\ (Len(gemfile.Dependencies) > 0 \/ gemfile.RubyVersion # "")
    /\ Len(gemfile.Gemspecs) = 0

GemfileParserParse(stmts, tsErr, orders, dir) ==
    IF UseTreeSitter(tsErr, ParseWithTreeSitter(stmts))
    THEN ParseWithTreeSitter(stmts)
    ELSE parseContent(stmts, orders, dir)

-----------------------------------------------------------------------------
(* Gemfiles: a head of declarations, then at most MaxLines lines of gems and blocks *)

MaxLines == 5

\* va = 'vb'  /  vb = '2'  /  gemspec  /  ruby '3.2'
Heads ==
    LET va == Stmt("assign", "va", <<Arg("str", "", "vb", <<>>)>>, FALSE)
        vb == Stmt("assign", "vb", <<Arg("str", "", "2", <<>>)>>, FALSE)
        gemspec == Stmt("gemspec", "", <<>>, FALSE)
        ruby == Stmt("ruby", "3.2", <<>>, FALSE)
    IN  {<<>>, <<gemspec>>, <<ruby>>, <<va, vb>>, <<va, vb, gemspec>>}

\* source 'https://u1' do / group :a, :b do / platforms :jruby do / end
\* gem 'x' / gem 'y', '1', git: 'https://g.example/r.git'
\* gem 'z', source: 'https://u2' / gem 'r', va, vb
BodyLines ==
    {Stmt("source", "https://u1", <<>>, TRUE),
     Stmt("group", "", <<Arg("sym", "", "a", <<>>), Arg("sym", "", "b", <<>>)>>, TRUE),
     Stmt("platforms", "", <<Arg("sym", "", "jruby", <<>>)>>, TRUE),
     Stmt("end", "", <<>>, FALSE),
     Stmt("gem", "x", <<>>, FALSE),
     Stmt("gem", "y", <<Arg("str", "", "1", <<>>),
                        Arg("str", "git", "https://g.example/r.git", <<>>)>>, FALSE),
     Stmt("gem", "z", <<Arg("str", "source", "https://u2", <<>>)>>, FALSE),
     Stmt("gem", "r", <<Arg("var", "", "va", <<>>), Arg("var", "", "vb", <<>>)>>, FALSE)}

\* The number of blocks open after the first n lines.
OpenAt(stmts, n) ==
    Len(SelectSeq(SubSeq(stmts, 1, n), LAMBDA l : l.do))
      - Len(SelectSeq(SubSeq(stmts, 1, n), LAMBDA l : l.kind = "end"))

\* Every `end` closes a do block and every do block is closed: the texts
\* that are Ruby programs.
Balanced(stmts) ==
    /\ \A n \in 1..Len(stmts) : OpenAt(stmts, n) >= 0
    /\ OpenAt(stmts, Len(stmts)) = 0

\* What the gemspec next to the Gemfile may declare.
GemspecDependencies ==
    {<<>>, <<[NewDependency("gs", <<"default">>, <<>>, <<>>) EXCEPT !.Constraints = <<"1">>]>>}

\* The orders in which a range over the map of variables can run.
Orders ==
    {o \in [1..Len(VarNames) -> {VarNames[i] : i \in 1..Len(VarNames)}] :
        \A i, j \in 1..Len(VarNames) : o[i] = o[j] => i = j}

\* The lines whose expansion depends on the order: those that name a variable.
VarLines(stmts) ==
    {i \in 1..Len(stmts) : stmts[i].kind # "assign" /\ \E j \in 1..Len(stmts[i].args) :
                               stmts[i].args[j].t = "var"}

\* The directory of the Gemfile, as LoadGemspecDependencies finds it.
GemspecDir == [gemspecs |-> gemspecFiles, deps |-> gemspecDeps]

\* One order for every line, from a choice for the lines that name a variable.
OrdersOf(stmts, choice) ==
    [i \in 1..Len(stmts) |-> IF i \in DOMAIN choice THEN choice[i] ELSE VarNames]

LockfileIdle ==
    /\ input = <<>>
    /\ pos = 0
    /\ currentSection = ParseStart.section
    /\ currentGem = ParseStart.gem
    /\ currentGitGem = ParseStart.git
    /\ currentPathGem = ParseStart.path
    /\ lockfile = NewLockfile
    /\ pc = "idle"
    /\ output = <<>>
    /\ reparsed = NewLockfile

InitGemfile ==
    /\ LockfileIdle
    /\ OthersIdle
    /\ \E head \in Heads : \E n \in 0..MaxLines : \E body \in [1..n -> BodyLines] :
          /\ Balanced(body)
          /\ manifest = head \o body
    /\ gemspecDeps \in GemspecDependencies
    /\ gemspecDeps # <<>> => \E i \in 1..Len(manifest) : manifest[i].kind = "gemspec"
    /\ gemspecFiles = IF gemspecDeps = <<>> THEN <<>> ELSE <<"a.gemspec">>
    /\ tsFailed = FALSE
    /\ tsResult = <<>>
    /\ lineResult = <<>>
    /\ parseResult = <<>>
    /\ gpc = "start"

\* NewTreeSitterGemfileParser(content).ParseWithTreeSitter()
CallParseWithTreeSitter ==
    /\ gpc = "start"
    /\ tsResult' = ParseWithTreeSitter(manifest)
    /\ gpc' = "ts"
    /\ UNCHANGED <<lockVars, otherVars, manifest, gemspecDeps, gemspecFiles, tsFailed, lineResult, parseResult>>

\* p.parseContent(), for every order in which the ranges over the map run
CallParseContent ==
    /\ gpc = "ts"
    /\ \E choice \in [VarLines(manifest) -> Orders] :
          lineResult' = parseContent(manifest, OrdersOf(manifest, choice), GemspecDir)
    /\ gpc' = "line"
    /\ UNCHANGED <<lockVars, otherVars, manifest, gemspecDeps, gemspecFiles, tsFailed, tsResult, parseResult>>

\* p.Parse(), whether or not the tree-sitter parser can be set up
CallParse ==
    /\ gpc = "ts"
    /\ \E err \in BOOLEAN : \E choice \in [VarLines(manifest) -> Orders] :
          /\ tsFailed' = err
          /\ parseResult' = GemfileParserParse(manifest, err, OrdersOf(manifest, choice), GemspecDir)
    /\ gpc' = "done"
    /\ UNCHANGED <<lockVars, otherVars, manifest, gemspecDeps, gemspecFiles, tsResult, lineResult>>

NextGemfile == CallParseWithTreeSitter \/ CallParseContent \/ CallParse

SpecGemfile == InitGemfile /\ [][NextGemfile]_vars

-----------------------------------------------------------------------------
(* The two Gemfile parsers and their selection *)

\* C3: when both parsers have run on a manifest (every manifest of the
\* model is a Ruby program the tree-sitter parser accepts), the line parser's
\* ParsedGemfile equals the tree-sitter parser's: same Sources, Dependencies
\* (name, constraints, groups, platforms, origin, require), RubyVersion and
\* Gemspecs.
C3_LineParserEqualsTreeSitter ==
    gpc = "line" => lineResult = tsResult

\* The value is one that parseContent can return for the manifest.
IsLineResult(result) ==
    \E choice \in [VarLines(manifest) -> Orders] :
        result = parseContent(manifest, OrdersOf(manifest, choice), GemspecDir)

\* C4: Parse returns the tree-sitter result if and only if that parse gave no
\* error, at least one dependency or a ruby version, and no gemspec
\* directive; in every other case it returns a result of the line parser.
C4_SelectionPolicy ==
    gpc = "done" =>
        IF /\ ~tsFailed
           /\ (Len(tsResult.Dependencies) >= 1 \/ tsResult.RubyVersion # "")
           /\ Len(tsResult.Gemspecs) = 0
        THEN parseResult = tsResult
        ELSE IsLineResult(parseResult)

\* Parse has fallen back to the line parser because of a gemspec directive,
\* although the tree-sitter parse succeeded and found dependencies.
C4_Witness ==
    /\ gpc = "done"
    /\ ~tsFailed
    /\ Len(tsResult.Dependencies) >= 1
    /\ Len(tsResult.Gemspecs) >= 1
    /\ parseResult # tsResult
    /\ IsLineResult(parseResult)

\* C5: for a fixed manifest (and a fixed outcome of setting up tree-sitter and
\* of loading the gemspec), every run of Parse returns the same ParsedGemfile:
\* the one of the run in which every range over the variables yields them in
\* the order of VarNames.
C5_ParseDeterministic ==
    gpc = "done" =>
        parseResult = GemfileParserParse(manifest, tsFailed, OrdersOf(manifest, << >>), GemspecDir)

\* The line that opens the innermost do block of the kind around line i (a
\* block opened at line o and not closed before line i); 0 when line i is in
\* no such block.
Innermost(stmts, kind, i) ==
    LET around == {o \in 1..(i - 1) :
                      /\ stmts[o].kind = kind
                      /\ stmts[o].do
                      /\ \A k \in o..(i - 1) : OpenAt(stmts, k) >= OpenAt(stmts, o)}
    IN  IF around = {} THEN 0 ELSE CHOOSE o \in around : \A q \in around : q <= o

\* The dependency a parser recorded for the gem line i.  The gemspec
\* directives of the manifests come before the gem lines, so it is as far
\* from the end of the list as line i is from the last gem line.
DepOfLine(result, stmts, i) ==
    result.Dependencies[Len(result.Dependencies) + 1
        - Len(SelectSeq(SubSeq(stmts, i, Len(stmts)), LAMBDA l : l.kind = "gem"))]

\* The origin a gem line asks for with an inline option; <<>> when it has none.
InlineOrigin(stmt) ==
    LET opts == SelectSeq(stmt.args, LAMBDA a : a.key \in {"git", "github", "path", "source"})
    IN  IF opts = <<>> THEN <<>>
        ELSE IF opts[1].key = "source" THEN <<NewSource("rubygems", <<opts[1].s>>)>>
        ELSE IF opts[1].key = "path" THEN <<NewSource("path", <<opts[1].s>>)>>
        ELSE IF opts[1].key = "github" THEN <<NewSource("git", GithubURL(opts[1].s))>>
        ELSE <<NewSource("git", <<opts[1].s>>)>>

\* The origin of the gem line i of the manifest in a result is as it should.
OriginAsDeclared(result, i) ==
    LET block == Innermost(manifest, "source", i)
        origin == DepOfLine(result, manifest, i).Source
        afterBlock == \E e \in 1..(i - 1) : manifest[e].kind = "end"
    IN  IF block # 0 /\ InlineOrigin(manifest[i]) # <<>> THEN origin = InlineOrigin(manifest[i])
        ELSE IF block # 0 THEN origin = <<NewSource("rubygems", <<manifest[block].name>>)>>
        ELSE IF afterBlock /\ InlineOrigin(manifest[i]) = <<>> THEN origin = <<>>
        ELSE TRUE

\* C6: in the result of either parser, a dependency inside a source block
\* with an inline origin option (git, github, path, source) has that origin,
\* one without has {rubygems, URL of the block}, and one after the end of a
\* block, without option, has no origin.
C6_InlineOriginKeepsSiblings ==
    gpc = "line" =>
        \A i \in 1..Len(manifest) : manifest[i].kind = "gem" =>
            /\ OriginAsDeclared(tsResult, i)
            /\ OriginAsDeclared(lineResult, i)

\* C7: in the result of Parse, a dependency without group option has the
\* groups of the innermost group block around its line, in declared order,
\* and exactly ["default"] when it is in no group block (before or after one).
C7_GroupsOfBlock ==
    gpc = "done" =>
        \A i \in 1..Len(manifest) :
            (manifest[i].kind = "gem" /\ \A j \in 1..Len(manifest[i].args) :
                                            manifest[i].args[j].key \notin {"group", "groups"}) =>
                DepOfLine(parseResult, manifest, i).Groups =
                    IF Innermost(manifest, "group", i) = 0 THEN <<"default">>
                    ELSE extractSymbolArguments(manifest[Innermost(manifest, "group", i)])

-----------------------------------------------------------------------------
(* The order of the written text *)

\* The ranks are in ascending order.
Ascending(ranks) == \A i, j \in 1..Len(ranks) : i < j => ranks[i] <= ranks[j]

\* The names of the lines of a block at an indentation rise from each line to
\* the next line of the block, when both are at that indentation.
RisingAt(block, ind) ==
    \A i \in 1..(Len(block) - 1) :
        (block[i].ind = ind /\ block[i + 1].ind = ind) => Rank(block[i].a) <= Rank(block[i + 1].a)

\* The ranks of the remotes of the blocks of a kind, in text order.
RemoteRanks(text, word) ==
    LET blocks == BlocksOfKind(text, word)
    IN  [b \in 1..Len(blocks) |-> SegRank(LastValue(blocks[b], "remote"))]

\* C11: in the text Write emits, the GEM blocks are in ascending URL order,
\* the GIT blocks in ascending remote order, the PATH blocks in ascending
\* path order; in every block the entries are in ascending name order and the
\* dependency edges under each entry in ascending name order; the
\* DEPENDENCIES list is in ascending name order.
C11_SortedOutput ==
    pc = "written" =>
        LET text == Flatten(output)
            words == HeaderWords(text)
        IN  /\ Ascending(RemoteRanks(text, "GEM"))
            /\ Ascending(RemoteRanks(text, "GIT"))
            /\ Ascending(RemoteRanks(text, "PATH"))
            /\ \A b \in 1..Len(words) :
                   LET block == BlockLines(text, b)
                       entries == SelectSeq(block, LAMBDA l : l.ind = 4 /\ l.k = "ent")
                   IN  /\ words[b] \in {"GEM", "GIT", "PATH"} =>
                             /\ Ascending([i \in 1..Len(entries) |-> Rank(entries[i].a)])
                             /\ RisingAt(block, 6)
                       /\ words[b] = "DEPENDENCIES" => RisingAt(block, 2)

\* A model whose registry entries, dependency edges and DEPENDENCIES list are
\* all in descending name order has been written, entries aa then bb.
C11_Witness ==
    /\ pc = "written"
    /\ Len(lockfile.GemSpecs) = 2
    /\ lockfile.GemSpecs[1].Name = "bb"
    /\ lockfile.GemSpecs[2].Name = "aa"
    /\ lockfile.GemSpecs[1].SourceURL = lockfile.GemSpecs[2].SourceURL
    /\ lockfile.GemSpecs[2].Dependencies # <<>>
    /\ lockfile.GemSpecs[2].Dependencies[1].Name = "cc"
    /\ lockfile.Dependencies # <<>>
    /\ lockfile.Dependencies[1].Name = "bb"
    /\ Len(BlocksOfKind(Flatten(output), "GEM")) = 1
    /\ \E i, j \in 1..Len(output[1]) :
           i < j /\ output[1][i].a = "aa" /\ output[1][i].ind = 4
                 /\ output[1][j].a = "bb" /\ output[1][j].ind = 4

\* C12: the PLATFORMS section of the text Write emits holds each distinct
\* value of Lockfile.Platforms on exactly one line, and no other line than
\* these, however often a value occurs in the model.
C12_PlatformsOnce ==
    pc = "written" =>
        LET blocks == BlocksOfKind(Flatten(output), "PLATFORMS")
            lines == SelectSeq(Flatten(blocks), LAMBDA l : l.k # "blank")
            values == {lockfile.Platforms[i] : i \in 1..Len(lockfile.Platforms)}
        IN  /\ \A v \in values :
                   Cardinality({i \in 1..Len(lines) : lines[i] = TextLine(2, v)}) = 1
            /\ Len(lines) = Cardinality(values)

\* A model in which a platform occurs twice, around another one, has been
\* written.
C12_Witness ==
    /\ pc = "written"
    /\ Len(lockfile.Platforms) = 3
    /\ lockfile.Platforms[1] = lockfile.Platforms[3]
    /\ lockfile.Platforms[1] # lockfile.Platforms[2]
    /\ Len(BlocksOfKind(Flatten(output), "PLATFORMS")) = 1

\* C13: for a fixed Lockfile model every run of Write emits the same text:
\* the one of the run in which the range over the map of git sources yields
\* them in the order of their first entries in the model.
C13_WriteDeterministic ==
    pc = "written" =>
        output = Write(lockfile,
                       [i \in 1..Len(Distinct(GitSourceKeys(lockfile.GitSpecs))) |-> i])

-----------------------------------------------------------------------------
(* package gemfile: GemfileWriter *)

\* A line of the Gemfile: its leading spaces, its first word, the quote that
\* follows the word ("" when none does), the pieces of the quoted text, and
\* the texts after it, each a list of pieces (formatGemLine joins them with
\* ", ").  Load splits the file at every "\n" and save joins w.content with
\* "\n", so a file is the list of its lines; the last line is empty when the
\* file ends with a newline.
GemfileLine(ind, word, q, name, rest) ==
    [ind |-> ind, word |-> word, q |-> q, name |-> name, rest |-> rest]

\* isDefaultGroup
isDefaultGroup(groups) == Len(groups) = 1 /\ groups[1] = "default"

\* isGemLine: the regexp ^\s*gem\s+['"]NAME['"] with NAME quoted by QuoteMeta
isGemLine_mutant(line, gemName) ==
    /\ line.word = "gem"
    /\ line.q # ""
    /\ Len(line.name) >= Len(gemName)
    /\ SubSeq(line.name, 1, Len(gemName)) = gemName

isGemLine(line, gemName) ==
    /\ line.word = "gem"
    /\ line.q # ""
    /\ line.name = gemName

\* hasGem
hasGem(content, gemName) == \E i \in 1..Len(content) : isGemLine(content[i], gemName)

\* formatConstraints: '%s' of every constraint
formatConstraints(dep) == [i \in 1..Len(dep.Constraints) |-> <<"'", dep.Constraints[i], "'">>]

\* extractGitHubPath: owner/repo of a github.com URL, "" when there is none
extractGitHubPath(url) ==
    IF Len(url) = 3 /\ url[1] = "https://github.com/" THEN url[2] ELSE ""

\* formatSource: the options of the origin; none for a nil Source and for the
\* default registry
formatSource(dep) ==
    IF dep.Source = <<>> THEN <<>>
    ELSE LET source == dep.Source[1]
             suboption(key, value) == IF value # "" THEN <<<<key, value, "'">>>> ELSE <<>>
         IN  CASE source.Type = "git" ->
                    (IF (\E i \in 1..Len(source.URL) : source.URL[i] = "https://github.com/")
                        /\ extractGitHubPath(source.URL) # ""
                     THEN <<<<"github: '", extractGitHubPath(source.URL), "'">>>>
                     ELSE <<<<"git: '">> \o source.URL \o <<"'">>>>)
                    \o suboption("branch: '", source.Branch)
                    \o suboption("tag: '", source.Tag)
                    \o suboption("ref: '", source.Ref)
               [] source.Type = "path" -> <<<<"path: '">> \o source.URL \o <<"'">>>>
               [] source.Type = "rubygems" ->
                    IF source.URL # <<"https://rubygems.org">>
                    THEN <<<<"source: '">> \o source.URL \o <<"'">>>>
                    ELSE <<>>
               [] OTHER -> <<>>

\* formatGroups: group: :g for one group, groups: [:g, :h] for several, and
\* nothing for no group or the default one
formatGroups(dep) ==
    IF Len(dep.Groups) > 0 /\ ~isDefaultGroup(dep.Groups)
    THEN IF Len(dep.Groups) = 1
         THEN <<<<"group: :", dep.Groups[1]>>>>
         ELSE <<<<"groups: [">> \o [i \in 1..Len(dep.Groups) |-> <<":", dep.Groups[i]>>] \o <<"]">>>>
    ELSE <<>>

\* formatRequire
formatRequire(dep) ==
    IF dep.Require # <<>>
    THEN IF dep.Require[1] = "" \/ dep.Require[1] = "false"
         THEN <<<<"require: false">>>>
         ELSE <<<<"require: '", dep.Require[1], "'">>>>
    ELSE <<>>

\* formatGemLine: gem 'NAME' and the options, joined with ", "
formatGemLine(dep) ==
    GemfileLine(0, "gem", "'", dep.Name,
                formatConstraints(dep) \o formatSource(dep) \o formatGroups(dep)
                    \o formatRequire(dep))

\* The loop of findInsertionPoint over w.content from line i on; lastGemIndex
\* counts from 1 here, and 0 stands for the -1 of the code.
RECURSIVE lastGemIndexFrom(_, _, _, _)
lastGemIndexFrom(content, i, inGroupBlock, lastGemIndex) ==
    IF i > Len(content) \/ lastGemIndex > Len(content) THEN lastGemIndex
    ELSE LET trimmed == content[i]
         IN  IF trimmed.word = "group"
             THEN lastGemIndexFrom(content, i + 1, TRUE, lastGemIndex)
             ELSE IF trimmed.word = "end" /\ trimmed.rest = <<>>
             THEN lastGemIndexFrom(content, i + 1, FALSE, lastGemIndex)
             ELSE IF ~inGroupBlock /\ trimmed.word = "gem"
             THEN lastGemIndexFrom(content, i + 1, inGroupBlock, i)
             ELSE lastGemIndexFrom(content, i + 1, inGroupBlock, lastGemIndex)

\* findInsertionPoint: the number of lines that stay before the new one
findInsertionPoint(content, groups) ==
    LET lastGemIndex == lastGemIndexFrom(content, 1, FALSE, 0)
    IN  IF isDefaultGroup(groups) /\ lastGemIndex >= 1 THEN lastGemIndex ELSE Len(content)

\* Mutant of AddGem: the new line is written over the line at insertIndex
\* in place of being put before it.
AddGem_mutant(content, dep) ==
    IF hasGem(content, dep.Name)
    THEN [err |-> "already exists in Gemfile", content |-> content]
    ELSE LET gemLine == formatGemLine(dep)
             insertIndex == findInsertionPoint(content, dep.Groups)
         IN  [err |-> "",
              content |-> SubSeq(content, 1, insertIndex) \o <<gemLine>>
                              \o SubSeq(content, insertIndex + 2, Len(content))]

\* AddGem: the error returned ("" is nil) and the lines of the file when it
\* returns; save is reached only when the gem is not there yet
AddGem(content, dep) ==
    IF hasGem(content, dep.Name)
    THEN [err |-> "already exists in Gemfile", content |-> content]
    ELSE LET gemLine == formatGemLine(dep)
             insertIndex == findInsertionPoint(content, dep.Groups)
         IN  [err |-> "",
              content |-> SubSeq(content, 1, insertIndex) \o <<gemLine>>
                              \o SubSeq(content, insertIndex + 1, Len(content))]

\* RemoveGem: every line that isGemLine accepts is dropped; save is reached
\* only when one was found
RemoveGem_mutant(content, gemName) ==
    LET found == {i \in 1..Len(content) : isGemLine(content[i], gemName)}
        first == CHOOSE i \in found : \A j \in found : i <= j
    IN  IF found = {} THEN [err |-> "not found in Gemfile", content |-> content]
        ELSE [err |-> "",
              content |-> SubSeq(content, 1, first - 1) \o SubSeq(content, first + 1, Len(content))]

RemoveGem(content, gemName) ==
    LET newContent == SelectSeq(content, LAMBDA line : ~isGemLine(line, gemName))
    IN  IF Len(newContent) = Len(content)
        THEN [err |-> "not found in Gemfile", content |-> content]
        ELSE [err |-> "", content |-> newContent]

-----------------------------------------------------------------------------
(* Gemfiles under edit: at most MaxFileLines lines, at most MaxCalls calls *)

MaxFileLines == 4

MaxCalls == 2

\* source 'https://u1' do / group :test do / end / gem 'aa' /   gem "aa"
\* gem 'aa-b' /   gem 'bb', '1' / the empty line
WriterLines ==
    {GemfileLine(0, "source", "'", <<"https://u1">>, <<<<"do">>>>),
     GemfileLine(0, "group", "", <<":test">>, <<<<"do">>>>),
     GemfileLine(0, "end", "", <<>>, <<>>),
     GemfileLine(0, "gem", "'", <<"aa">>, <<>>),
     GemfileLine(2, "gem", "\"", <<"aa">>, <<>>),
     GemfileLine(0, "gem", "'", <<"aa", "-b">>, <<>>),
     GemfileLine(2, "gem", "'", <<"bb">>, <<<<"'", "1", "'">>>>),
     GemfileLine(0, "", "", <<>>, <<>>)}

\* The dependencies handed to AddGem
WriterDeps ==
    LET plain(name, groups) == NewDependency(name, groups, <<>>, <<>>)
    IN  {plain(<<"aa">>, <<"default">>),
         plain(<<"aa">>, <<"test">>),
         plain(<<"cc">>, <<"default">>),
         [plain(<<"cc">>, <<"test">>) EXCEPT !.Constraints = <<"1">>],
         [plain(<<"cc">>, <<>>) EXCEPT !.Source = <<NewSource("git", GithubURL("o/cc"))>>],
         [plain(<<"cc">>, <<"development", "test">>) EXCEPT !.Require = <<"false">>]}

\* The names handed to RemoveGem
WriterNames == {<<"aa">>, <<"bb">>, <<"cc">>}

InitWriter ==
    /\ LockfileIdle
    /\ GemfileIdle
    /\ \E n \in 1..MaxFileLines : gemfileContent \in [1..n -> WriterLines]
    /\ history = <<>>
    /\ GemspecIdle
    /\ FilterIdle
    /\ StepIdle

\* w.AddGem(dep) on the file
CallAddGem ==
    /\ gemfileContent # <<>>
    /\ Len(history) < MaxCalls
    /\ \E dep \in WriterDeps :
          LET returned == AddGem(gemfileContent, dep)
          IN  /\ gemfileContent' = returned.content
              /\ history' = Append(history, [op |-> "AddGem", name |-> dep.Name, dep |-> <<dep>>,
                                             err |-> returned.err, before |-> gemfileContent])
    /\ UNCHANGED <<lockVars, gemVars, gemspecVars, filterVars, stepVars>>

\* w.RemoveGem(gemName) on the file
CallRemoveGem ==
    /\ gemfileContent # <<>>
    /\ Len(history) < MaxCalls
    /\ \E gemName \in WriterNames :
          LET returned == RemoveGem(gemfileContent, gemName)
          IN  /\ gemfileContent' = returned.content
              /\ history' = Append(history, [op |-> "RemoveGem", name |-> gemName, dep |-> <<>>,
                                             err |-> returned.err, before |-> gemfileContent])
    /\ UNCHANGED <<lockVars, gemVars, gemspecVars, filterVars, stepVars>>

NextWriter == CallAddGem \/ CallRemoveGem

SpecWriter == InitWriter /\ [][NextWriter]_vars

-----------------------------------------------------------------------------
(* Editing the Gemfile *)

\* The last call and what it was made on.
LastCall == history[Len(history)]

\* The lines that declare a gem of exactly this name: gem 'NAME' or gem "NAME"
\* after any leading spaces.
Declaring(content, name) ==
    {i \in 1..Len(content) :
        content[i].word = "gem" /\ content[i].q \in {"'", "\""} /\ content[i].name = name}

\* The lines that declare a gem whose name starts with this name and goes on.
DeclaringLonger(content, name) ==
    {i \in 1..Len(content) :
        /\ content[i].word = "gem"
        /\ content[i].q \in {"'", "\""}
        /\ Len(content[i].name) > Len(name)
        /\ SubSeq(content[i].name, 1, Len(name)) = name}

\* C14: AddGem fails and leaves the file as it was when a line declares a gem
\* of exactly dep.Name, inside a block or not; a declared gem whose name only
\* starts with dep.Name does not make it fail.
C14_AddGemRejectsDuplicate ==
    (history # <<>> /\ LastCall.op = "AddGem") =>
        IF Declaring(LastCall.before, LastCall.name) # {}
        THEN LastCall.err # "" /\ gemfileContent = LastCall.before
        ELSE LastCall.err = ""

\* AddGem went through on a file that declares a gem with a longer name, and
\* the same AddGem was then refused and left the file alone.
C14_Witness ==
    /\ Len(history) = 2
    /\ history[1].op = "AddGem" /\ history[2].op = "AddGem"
    /\ history[1].name = history[2].name
    /\ DeclaringLonger(history[1].before, history[1].name) # {}
    /\ history[1].err = ""
    /\ history[2].err # ""
    /\ gemfileContent = history[2].before

\* C15: RemoveGem fails and leaves the file as it was when no line declares the
\* gem; otherwise every line that declares it is gone and every other line is
\* still there, unchanged and in the order it had.
C15_RemoveGemDeletesDeclarations ==
    (history # <<>> /\ LastCall.op = "RemoveGem") =>
        LET before == LastCall.before
            gone == Declaring(before, LastCall.name)
            goneBelow(i) == Cardinality({j \in gone : j < i})
        IN  IF gone = {}
            THEN LastCall.err # "" /\ gemfileContent = before
            ELSE /\ LastCall.err = ""
                 /\ Len(gemfileContent) = Len(before) - Cardinality(gone)
                 /\ \A i \in (1..Len(before)) \ gone :
                       gemfileContent[i - goneBelow(i)] = before[i]

\* RemoveGem('aa') took two declarations of aa out of a file, one of them
\* indented, and left lines before and after them.
C15_Witness ==
    /\ history # <<>>
    /\ LastCall.op = "RemoveGem"
    /\ LastCall.err = ""
    /\ Cardinality(Declaring(LastCall.before, LastCall.name)) = 2
    /\ Len(gemfileContent) = 2
    /\ \A i \in Declaring(LastCall.before, LastCall.name) : 1 < i /\ i < Len(LastCall.before)

\* The number of blocks open around line i: the lines above it that end with
\* do, less the end lines above it.
BlocksAround(content, i) ==
    Cardinality({j \in 1..(i - 1) : content[j].rest # <<>>
                                      /\ content[j].rest[Len(content[j].rest)] = <<"do">>})
        - Cardinality({j \in 1..(i - 1) : content[j].word = "end"})

\* The dependency lines that are inside no block.
TopLevelGemLines(content) ==
    {i \in 1..Len(content) : content[i].word = "gem" /\ BlocksAround(content, i) <= 0}

\* after is before with one line put in behind its first k lines.
InsertedAt(before, after, k, line) ==
    after = SubSeq(before, 1, k) \o <<line>> \o SubSeq(before, k + 1, Len(before))

\* C16: a successful AddGem puts one line in and changes nothing else; for
\* Groups ["default"] the line comes right after the last dependency line that
\* is inside no block, for any other Groups it comes at the end of the file.
C16_InsertionPoint ==
    (history # <<>> /\ LastCall.op = "AddGem" /\ LastCall.err = "") =>
        LET before == LastCall.before
            dep == LastCall.dep[1]
            top == TopLevelGemLines(before)
        IN  /\ \E k \in 0..Len(before) : \E line \in {gemfileContent[k + 1]} :
                  InsertedAt(before, gemfileContent, k, line)
            /\ (dep.Groups = <<"default">> /\ top # {}) =>
                  InsertedAt(before, gemfileContent,
                             CHOOSE i \in top : \A j \in top : j <= i, formatGemLine(dep))
            /\ dep.Groups # <<"default">> =>
                  InsertedAt(before, gemfileContent, Len(before), formatGemLine(dep))

-----------------------------------------------------------------------------
(* package gemfile: GemspecParser *)

\* GemspecFile, as far as Parse looks at it: the name and the metadata keys
GemspecFile(name, metadata) == [Name |-> name, Metadata |-> metadata]

\* Parse, after the tree-sitter tier returned (gemspec, err): whether it
\* returns that gemspec.  The name is read only when err is nil.
treeSitterAccepted(ts) == ts.err = "" /\ ts.gemspec[1].Name # ""

\* convertJSONToGemspecFile: the fields of the JSON, copied
convertJSONToGemspecFile(result) == GemspecFile(result.name, DOMAIN result.metadata)

\* parseWithRuby after cmd.Run: fallbackParse when the command failed or its
\* output is no JSON, an error when the metadata hold the key "error", else
\* the converted output.  out is <<>> for output that json.Unmarshal rejects.
parseWithRuby(ruby) ==
    IF ruby.run # "" THEN [fallback |-> TRUE, gemspec |-> <<>>, err |-> ""]
    ELSE IF ruby.out = <<>> THEN [fallback |-> TRUE, gemspec |-> <<>>, err |-> ""]
    ELSE IF "error" \in DOMAIN ruby.out[1].metadata
    THEN [fallback |-> FALSE, gemspec |-> <<>>, err |-> "ruby parsing error"]
    ELSE [fallback |-> FALSE, gemspec |-> <<convertJSONToGemspecFile(ruby.out[1])>>, err |-> ""]

\* fallbackParse on a file that can be read: what the regexps extract, no error
fallbackParse(regex) == [gemspec |-> <<regex>>, err |-> ""]

-----------------------------------------------------------------------------
(* .gemspec files: what the three tiers make of one *)

GemspecNames == {"", "g", "h"}

\* ParseWithTreeSitter: an error, or a GemspecFile with or without a name
TreeSitterOutcomes ==
    {[err |-> "tree-sitter parse failed", gemspec |-> <<>>]}
        \cup {[err |-> "", gemspec |-> <<GemspecFile(n, {})>>] : n \in {"", "g"}}

\* cmd.Run and its output: ruby missing, exit status 1, killed at the timeout,
\* or output that is no JSON, or the JSON of a gemspec
RubyOutcomes ==
    {[run |-> r, out |-> <<>>] : r \in {"executable file not found", "exit status 1", "signal: killed"}}
        \cup {[run |-> "", out |-> <<>>]}
        \cup {[run |-> "", out |-> <<[name |-> n, metadata |-> m]>>] :
                n \in GemspecNames, m \in {<< >>, [k \in {"error"} |-> "x"], [k \in {"homepage_uri"} |-> "x"]}}

\* what the regexps of fallbackParse extract
RegexOutcomes == {GemspecFile(n, {}) : n \in {"", "g"}}

InitGemspec ==
    /\ LockfileIdle
    /\ GemfileIdle
    /\ WriterIdle
    /\ FilterIdle
    /\ StepIdle
    /\ gemspecEnv \in [ts : TreeSitterOutcomes, ruby : RubyOutcomes, regex : RegexOutcomes]
    /\ tiersRun = <<>>
    /\ gemspecReturn = <<>>
    /\ gemspecPc = "tree-sitter"

\* Parse up to its first return or its call of parseWithRuby
RunTreeSitter ==
    /\ gemspecPc = "tree-sitter"
    /\ tiersRun' = Append(tiersRun, "tree-sitter")
    /\ IF treeSitterAccepted(gemspecEnv.ts)
       THEN /\ gemspecReturn' = <<[gemspec |-> gemspecEnv.ts.gemspec, err |-> ""]>>
            /\ gemspecPc' = "done"
       ELSE /\ gemspecReturn' = gemspecReturn
            /\ gemspecPc' = "ruby"
    /\ UNCHANGED <<lockVars, gemVars, writerVars, filterVars, stepVars, gemspecEnv>>

\* parseWithRuby up to its return or its call of fallbackParse
RunRuby ==
    /\ gemspecPc = "ruby"
    /\ tiersRun' = Append(tiersRun, "ruby")
    /\ LET returned == parseWithRuby(gemspecEnv.ruby)
       IN  IF returned.fallback
           THEN /\ gemspecReturn' = gemspecReturn
                /\ gemspecPc' = "regex"
           ELSE /\ gemspecReturn' = <<[gemspec |-> returned.gemspec, err |-> returned.err]>>
                /\ gemspecPc' = "done"
    /\ UNCHANGED <<lockVars, gemVars, writerVars, filterVars, stepVars, gemspecEnv>>

\* fallbackParse
RunFallback ==
    /\ gemspecPc = "regex"
    /\ tiersRun' = Append(tiersRun, "regex")
    /\ gemspecReturn' = <<fallbackParse(gemspecEnv.regex)>>
    /\ gemspecPc' = "done"
    /\ UNCHANGED <<lockVars, gemVars, writerVars, filterVars, stepVars, gemspecEnv>>

NextGemspec == RunTreeSitter \/ RunRuby \/ RunFallback

SpecGemspec == InitGemspec /\ [][NextGemspec]_vars

-----------------------------------------------------------------------------
(* The tiers of the .gemspec parser *)

\* The interpreter is missing, exits with a status other than 0, is killed
\* at the timeout, or prints what is no JSON.
RubyFailed(ruby) == ruby.run # "" \/ ruby.out = <<>>

\* How many times a tier has run.
TimesRun(tier) == Cardinality({i \in 1..Len(tiersRun) : tiersRun[i] = tier})

\* C17: Parse returns the tree-sitter result exactly when that tier gave no
\* error and a name; otherwise it runs the interpreter once, and when that
\* fails the regex parser once, whose result it returns without an error.  No
\* tier runs twice, none runs after an earlier one succeeded, and no error is
\* returned.
C17_TierEscalation ==
    /\ \A tier \in {"tree-sitter", "ruby", "regex"} : TimesRun(tier) <= 1
    /\ TimesRun("ruby") = 1 => ~treeSitterAccepted(gemspecEnv.ts)
    /\ TimesRun("regex") = 1 => TimesRun("ruby") = 1 /\ RubyFailed(gemspecEnv.ruby)
    /\ gemspecPc = "done" =>
          /\ gemspecReturn[1].err = ""
          /\ treeSitterAccepted(gemspecEnv.ts) <=>
                (tiersRun = <<"tree-sitter">> /\ gemspecReturn[1].gemspec = gemspecEnv.ts.gemspec)
          /\ ~treeSitterAccepted(gemspecEnv.ts) => TimesRun("ruby") = 1
          /\ (~treeSitterAccepted(gemspecEnv.ts) /\ RubyFailed(gemspecEnv.ruby)) =>
                /\ tiersRun = <<"tree-sitter", "ruby", "regex">>
                /\ gemspecReturn[1] = [gemspec |-> <<gemspecEnv.regex>>, err |-> ""]

-----------------------------------------------------------------------------
(* Gemfiles with lines of more kinds: a head, then at most MaxManifestLines *)
(* lines, in a directory with any number of .gemspec files                  *)

MaxManifestLines == 3

\* The lines of BodyLines and
\* gem x (no quoted name)  /  # a comment  /  gem 'w', '1', source: 'https://u2'
ManifestLines ==
    BodyLines \cup
    {Stmt("gem", "", <<>>, FALSE),
     Stmt("comment", "", <<>>, FALSE),
     Stmt("gem", "w", <<Arg("str", "", "1", <<>>), Arg("str", "source", "https://u2", <<>>)>>, FALSE)}

\* What FindGemspecs may return.
GemspecFileLists == {<<>>, <<"a.gemspec">>, <<"a.gemspec", "b.gemspec">>}

InitManifest ==
    /\ LockfileIdle
    /\ OthersIdle
    /\ \E head \in Heads : \E n \in 0..MaxManifestLines : \E body \in [1..n -> ManifestLines] :
          /\ Balanced(body)
          /\ manifest = head \o body
    /\ gemspecFiles \in GemspecFileLists
    /\ gemspecDeps \in GemspecDependencies
    /\ gemspecFiles = <<>> => gemspecDeps = <<>>
    /\ gemspecFiles # <<>> => \E i \in 1..Len(manifest) : manifest[i].kind = "gemspec"
    /\ tsFailed = FALSE
    /\ tsResult = <<>>
    /\ lineResult = <<>>
    /\ parseResult = <<>>
    /\ gpc = "start"

SpecManifest == InitManifest /\ [][NextGemfile]_vars

-----------------------------------------------------------------------------
(* Errors of the Gemfile parsers, and the inline source option *)

\* The value returned is an error and no ParsedGemfile.
IsError(returned) == "err" \in DOMAIN returned

\* The lines that start with `gem ` and have no quoted name.
MalformedLines(stmts) == {i \in 1..Len(stmts) : stmts[i].kind = "gem" /\ stmts[i].name = ""}

\* The gemspec directives that the line parser reaches.
ResolvedDirectives(stmts) ==
    {i \in 1..Len(stmts) : stmts[i].kind = "gemspec" /\ \A j \in MalformedLines(stmts) : i < j}

\* No .gemspec file is found, or several are and the directive has no name.
ResolutionFails(stmts, i) ==
    \/ Len(gemspecFiles) = 0
    \/ Len(gemspecFiles) > 1 /\ parseGemspecDirective(stmts[i]).Name = ""

\* C18 as claimed: when Parse resolves a gemspec directive and no .gemspec
\* file is found, or several are found and the directive gives no name, Parse
\* returns the error of the resolution (which lists the candidates when there
\* are several) and no ParsedGemfile.
C18_ResolutionFailureIsTerminal ==
    gpc = "done" =>
        \A i \in ResolvedDirectives(manifest) : ResolutionFails(manifest, i) =>
            /\ IsError(parseResult)
            /\ parseResult.err =
                  LoadGemspecDependencies(parseGemspecDirective(manifest[i]), GemspecDir).err

\* C18: when Parse resolves a gemspec directive and no .gemspec file is found,
\* or several are found and the directive gives no name, the error of the
\* resolution is dropped: unless a malformed gem line stops the line parser,
\* Parse returns a ParsedGemfile that records the directive in Gemspecs and
\* holds no dependency taken from a .gemspec file.
C18_ResolutionFailureIsDropped ==
    gpc = "done" =>
        \A i \in ResolvedDirectives(manifest) :
            (ResolutionFails(manifest, i) /\ MalformedLines(manifest) = {}) =>
                /\ ~IsError(parseResult)
                /\ Len(parseResult.Gemspecs) = Cardinality(ResolvedDirectives(manifest))
                /\ \A d \in 1..Len(parseResult.Dependencies) :
                      \A g \in 1..Len(gemspecDeps) :
                          parseResult.Dependencies[d].Name # gemspecDeps[g].Name

\* Parse went through a gemspec directive in a directory with two .gemspec
\* files, the first of which declares a dependency, and returned a
\* ParsedGemfile with the directive and with the gems of the manifest.
C18_Witness ==
    /\ gpc = "done"
    /\ ResolvedDirectives(manifest) # {}
    /\ Len(gemspecFiles) = 2
    /\ gemspecDeps # <<>>
    /\ ~IsError(parseResult)
    /\ Len(parseResult.Gemspecs) = 1
    /\ Len(parseResult.Dependencies) >= 1

\* C19: when the line parser meets a line that starts with `gem ` and has no
\* quoted name, it stops there and returns an error with the number of that
\* line in the file, counted from 1 over all lines, comments included, and no
\* ParsedGemfile; so does Parse when it has fallen back to the line parser.
C19_MalformedGemLine ==
    LET bad == MalformedLines(manifest)
        first == CHOOSE i \in bad : \A j \in bad : i <= j
    IN  bad # {} =>
            /\ gpc = "line" => lineResult = [err |-> "invalid gem line", line |-> first]
            /\ (gpc = "done" /\ ~UseTreeSitter(tsFailed, tsResult)) =>
                  parseResult = [err |-> "invalid gem line", line |-> first]

\* The line parser has stopped at a malformed gem line that comes after a
\* comment line and another line, and has returned its number.
C19_Witness ==
    /\ gpc = "line"
    /\ IsError(lineResult)
    /\ lineResult.line >= 3
    /\ manifest[lineResult.line].kind = "gem"
    /\ manifest[lineResult.line].name = ""
    /\ \E i \in 1..(lineResult.line - 1) : manifest[i].kind = "comment"

\* The gem lines of the form gem NAME, CONSTRAINT, source: URL.
InlineSourceLines(stmts) ==
    {i \in 1..Len(stmts) :
        /\ stmts[i].kind = "gem"
        /\ stmts[i].name # ""
        /\ Len(stmts[i].args) = 2
        /\ stmts[i].args[1].key = "" /\ stmts[i].args[1].t = "str"
        /\ stmts[i].args[2].key = "source" /\ stmts[i].args[2].t = "str"}

\* The dependency is NAME with the one constraint and the registry at URL.
IsInlineSourceDependency(dep, stmt) ==
    /\ dep.Name = stmt.name
    /\ dep.Constraints = <<stmt.args[1].s>>
    /\ dep.Source = <<NewSource("rubygems", <<stmt.args[2].s>>)>>

\* C20: for a line gem NAME, CONSTRAINT, source: URL both parsers record a
\* dependency NAME whose Constraints are exactly [CONSTRAINT] and whose Source
\* is {rubygems, URL}.
C20_InlineSource ==
    (gpc = "line" /\ MalformedLines(manifest) = {}) =>
        \A i \in InlineSourceLines(manifest) :
            /\ IsInlineSourceDependency(DepOfLine(tsResult, manifest, i), manifest[i])
            /\ IsInlineSourceDependency(DepOfLine(lineResult, manifest, i), manifest[i])

-----------------------------------------------------------------------------
(* package lockfile: FilterGemsByGroups *)

\* Whether the value is among the elements of the list.
Contains(list, value) == \E i \in 1..Len(list) : list[i] = value

\* The body of the loop of FilterGemsByGroups for one gem: whether it is
\* appended to filtered.  Here the inclusion test comes first and wins.
keepsGem_mutant(gem, includeGroups, excludeGroups) ==
    LET gemGroups == IF Len(gem.Groups) = 0 THEN <<"default">> ELSE gem.Groups
        excluded == \E e \in 1..Len(excludeGroups) : Contains(gemGroups, excludeGroups[e])
        included == \E i \in 1..Len(includeGroups) : \E g \in 1..Len(gemGroups) :
                        gemGroups[g] = includeGroups[i] \/ gemGroups[g] = "default"
    IN  IF Len(includeGroups) > 0 THEN included ELSE ~excluded

keepsGem(gem, includeGroups, excludeGroups) ==
    LET gemGroups == IF Len(gem.Groups) = 0 THEN <<"default">> ELSE gem.Groups
        excluded == \E e \in 1..Len(excludeGroups) : Contains(gemGroups, excludeGroups[e])
        included == \E i \in 1..Len(includeGroups) : \E g \in 1..Len(gemGroups) :
                        gemGroups[g] = includeGroups[i] \/ gemGroups[g] = "default"
    IN  IF excluded THEN FALSE
        ELSE IF Len(includeGroups) > 0 THEN included
        ELSE TRUE

\* FilterGemsByGroups
FilterGemsByGroups(gems, includeGroups, excludeGroups) ==
    IF Len(includeGroups) = 0 /\ Len(excludeGroups) = 0 THEN gems
    ELSE SelectSeq(gems, LAMBDA gem : keepsGem(gem, includeGroups, excludeGroups))

-----------------------------------------------------------------------------
(* Calls of FilterGemsByGroups: at most MaxGems gems *)

MaxGems == 3

\* The gems of TestFilterGemsByGroups, and gems with no group, with the
\* default group only and with two groups
FilterGems ==
    {[Name |-> "rails", Groups |-> <<"default", "production">>],
     [Name |-> "rubocop", Groups |-> <<"development">>],
     [Name |-> "rspec", Groups |-> <<"test">>],
     [Name |-> "rake", Groups |-> <<>>],
     [Name |-> "json", Groups |-> <<"default">>],
     [Name |-> "pry", Groups |-> <<"development", "test">>]}

\* The lists given for includeGroups and excludeGroups
GroupLists ==
    {<<>>, <<"production">>, <<"test">>, <<"development">>, <<"default">>,
     <<"test", "development">>}

InitFilter ==
    /\ LockfileIdle
    /\ GemfileIdle
    /\ WriterIdle
    /\ GemspecIdle
    /\ StepIdle
    /\ \E n \in 0..MaxGems : \E gems \in [1..n -> FilterGems] :
          \E includeGroups \in GroupLists : \E excludeGroups \in GroupLists :
              filterCall = <<[gems |-> gems, includeGroups |-> includeGroups,
                              excludeGroups |-> excludeGroups]>>
    /\ filterReturn = <<>>

\* FilterGemsByGroups(gems, includeGroups, excludeGroups)
CallFilterGemsByGroups ==
    /\ filterCall # <<>>
    /\ filterReturn = <<>>
    /\ filterReturn' = <<FilterGemsByGroups(filterCall[1].gems, filterCall[1].includeGroups,
                                            filterCall[1].excludeGroups)>>
    /\ UNCHANGED <<lockVars, gemVars, writerVars, gemspecVars, stepVars, filterCall>>

NextFilter == CallFilterGemsByGroups

SpecFilter == InitFilter /\ [][NextFilter]_vars

-----------------------------------------------------------------------------
(* Filtering by group *)

\* The groups a gem counts for: its own, or default when it has none.
GroupsOf(gem) == IF gem.Groups = <<>> THEN {"default"} ELSE {gem.Groups[i] : i \in 1..Len(gem.Groups)}

\* The gem is to be kept: none of its groups is excluded and, when groups
\* are asked for, one of its groups is asked for or is default.
ToKeep(gem, include, exclude) ==
    /\ GroupsOf(gem) \cap {exclude[i] : i \in 1..Len(exclude)} = {}
    /\ include # <<>> =>
          (GroupsOf(gem) \cap ({include[i] : i \in 1..Len(include)} \cup {"default"})) # {}

-----------------------------------------------------------------------------
(* Parse: what a section header does to the accumulators *)

\* The header lines Parse knows: the five section words and `BUNDLED WITH`.
IsSectionHeader(line) ==
    line.k = "hdr" /\ line.ind = 0 /\ line.a \in SectionWords \cup {"BUNDLED WITH"}

\* The entry-start lines of the registry blocks of a text.
RegistryEntryLines(lines) ==
    Flatten([i \in 1..Len(BlocksOfKind(lines, "GEM")) |->
                SelectSeq(BlocksOfKind(lines, "GEM")[i], MatchesGemSpec)])

\* The header has just been read and the next line is not yet processed.
JustReadHeader == pc = "parse" /\ pos >= 1 /\ IsSectionHeader(input[pos])

\* C22: right after a section header line (GEM, GIT, PATH, PLATFORMS,
\* DEPENDENCIES, BUNDLED WITH) has been read, no accumulator of the three
\* kinds is open, every one that was open having been appended to its
\* collection; when Parse returns, every accumulator that was opened is in
\* its collection exactly once: one registry entry per entry-start line of a
\* GEM block, one version-control entry per GIT block and one local-path
\* entry per PATH block that opened one.
C22_HeaderFlush ==
    /\ JustReadHeader =>
          currentGem = <<>> /\ currentGitGem = <<>> /\ currentPathGem = <<>>
    /\ pc = "parsed" =>
          /\ Len(lockfile.GemSpecs) = Len(RegistryEntryLines(input))
          /\ Len(lockfile.GitSpecs) = Len(BlocksOfKind(input, "GIT"))
          /\ Len(lockfile.PathSpecs) = Len(BlocksOfKind(input, "PATH"))

-----------------------------------------------------------------------------
(* Parse: the entries of a GIT or PATH block *)

\* The positions of the entry-start lines `    name (version)` of a block.
EntryStarts(block) ==
    SelectSeq([i \in 1..Len(block) |-> i], LAMBDA i : MatchesGemSpec(block[i]))

\* The dependency edges written between the n-th entry-start line of a block
\* and the next one (or the end of the block).
EdgesOfEntry(block, n) ==
    LET starts == EntryStarts(block)
        last == IF n = Len(starts) THEN Len(block) ELSE starts[n + 1] - 1
    IN  EdgesOf(SubSeq(block, starts[n] + 1, last))

\* One version-control entry per entry-start line of a GIT block.
GitEntriesOf(block) ==
    [n \in 1..Len(EntryStarts(block)) |->
        [Name |-> block[EntryStarts(block)[n]].a,
         Version |-> block[EntryStarts(block)[n]].c[1],
         Remote |-> LastValue(block, "remote"),
         Revision |-> LastValue(block, "revision"),
         Branch |-> LastValue(block, "branch"),
         Tag |-> LastValue(block, "tag"),
         Dependencies |-> EdgesOfEntry(block, n)]]

\* One local-path entry per entry-start line of a PATH block.
PathEntriesOf(block) ==
    [n \in 1..Len(EntryStarts(block)) |->
        [Name |-> block[EntryStarts(block)[n]].a,
         Version |-> block[EntryStarts(block)[n]].c[1],
         Remote |-> LastValue(block, "remote"),
         Dependencies |-> EdgesOfEntry(block, n)]]

\* C23: when Parse returns, GitSpecs holds, block after block, one entry per
\* entry-start line of every GIT block, with the block's remote, revision,
\* branch and tag and with the dependency edges that follow that line, and
\* PathSpecs the same for the PATH blocks: a block with k entry-start lines
\* gives k entries and no entry is rewritten by a later entry-start line.
C23_EntryPerEntryStart ==
    pc = "parsed" =>
        /\ lockfile.GitSpecs =
              Flatten([i \in 1..Len(BlocksOfKind(input, "GIT")) |->
                          GitEntriesOf(BlocksOfKind(input, "GIT")[i])])
        /\ lockfile.PathSpecs =
              Flatten([i \in 1..Len(BlocksOfKind(input, "PATH")) |->
                          PathEntriesOf(BlocksOfKind(input, "PATH")[i])])

-----------------------------------------------------------------------------
(* TreeSitterGemfileParser: the context stack during the walk of the tree *)

\* Bound: the number of statements of a walked tree.
MaxNodes == 5

\* group :a, :b do / platforms :jruby do / source 'https://u1' do / if ... /
\* group do (no names) / end / gem 'x' / gem 'y', groups: [:c]
WalkLines ==
    {Stmt("group", "", <<Arg("sym", "", "a", <<>>), Arg("sym", "", "b", <<>>)>>, TRUE),
     Stmt("platforms", "", <<Arg("sym", "", "jruby", <<>>)>>, TRUE),
     Stmt("source", "https://u1", <<>>, TRUE),
     Stmt("if", "", <<>>, TRUE),
     Stmt("group", "", <<>>, TRUE),
     Stmt("end", "", <<>>, FALSE),
     Stmt("gem", "x", <<>>, FALSE),
     Stmt("gem", "y", <<Arg("arr", "groups", "", <<"c">>)>>, FALSE)}

\* The `end` of the block that statement i opens.
MatchingEnd(stmts, i) ==
    CHOOSE j \in (i + 1)..Len(stmts) :
        /\ OpenAt(stmts, j) = OpenAt(stmts, i) - 1
        /\ \A k \in (i + 1)..(j - 1) : OpenAt(stmts, k) >= OpenAt(stmts, i)

\* processGroup and processPlatform return at once, without reading the
\* block, when the call has no symbol argument.
ReturnsEarly(stmt) ==
    stmt.kind \in {"group", "platforms"} /\ stmt.do /\ extractSymbolArguments(stmt) = <<>>

InitWalk ==
    /\ LockfileIdle
    /\ GemfileIdle
    /\ WriterIdle
    /\ GemspecIdle
    /\ FilterIdle
    /\ ScanIdle
    /\ \E n \in 0..MaxNodes : \E stmts \in [1..n -> WalkLines] :
          /\ Balanced(stmts)
          /\ tree = stmts
    /\ node = 0
    /\ walker = <<[stack |-> newParserContextStack, gemfile |-> NewParsedGemfile]>>
    /\ frames = <<Current(newParserContextStack)>>

\* extractGemfileData on the next statement of the tree: a call, the node of
\* an if/unless, or the end of a block that was entered.
WalkNode ==
    /\ walker # <<>>
    /\ node < Len(tree)
    /\ LET stmt == tree[node + 1]
           last == IF ReturnsEarly(stmt) THEN MatchingEnd(tree, node + 1) ELSE node + 1
           after == IF ReturnsEarly(stmt) THEN walker[1] ELSE processCall(walker[1], stmt)
       IN  /\ node' = last
           /\ walker' = <<after>>
           /\ frames' = frames \o [k \in 1..(last - node) |-> Current(after.stack)]
    /\ UNCHANGED <<lockVars, gemVars, writerVars, gemspecVars, filterVars, scanVars, tree>>

NextWalk == WalkNode

SpecWalk == InitWalk /\ [][NextWalk]_vars

\* Statement i lies in a block that was not read.
NotRead(stmts, i) ==
    \E k \in 1..(i - 1) : ReturnsEarly(stmts[k]) /\ MatchingEnd(stmts, k) >= i

\* The blocks entered and not yet left after the first n statements.
OpenBlocks(stmts, n) ==
    SelectSeq([i \in 1..n |-> i],
              LAMBDA i : stmts[i].do /\ ~ReturnsEarly(stmts[i]) /\ MatchingEnd(stmts, i) > n)

\* The frame a block gives its body: the parent's, but for what the block sets.
ChildFrame(parent, stmt) ==
    CASE stmt.kind = "group" -> [parent EXCEPT !.groups = extractSymbolArguments(stmt)]
      [] stmt.kind = "platforms" -> [parent EXCEPT !.platforms = extractSymbolArguments(stmt)]
      [] stmt.kind = "source" ->
             [parent EXCEPT !.source = <<NewSource("rubygems", <<stmt.name>>)>>]
      [] stmt.kind = "if" -> [parent EXCEPT !.conditional = TRUE]

\* C24: during the walk of the tree, the frame pushed for a block is the
\* parent's frame with the block's own change; every frame below the current
\* one is still the frame that was current when its block was entered; after
\* the end of a block the current frame is the frame that was current before
\* the block; and when the walk is over the current frame is the root frame
\* (groups default, no platforms, no source, not conditional).
C24_ContextStack ==
    walker # <<>> =>
        LET stack == walker[1].stack
            open == OpenBlocks(tree, node)
        IN  /\ Len(frames) = node + 1
            /\ frames[node + 1] = Current(stack)
            /\ \A i \in 1..node :
                  (tree[i].do /\ ~ReturnsEarly(tree[i]) /\ ~NotRead(tree, i)) =>
                      frames[i + 1] = ChildFrame(frames[i], tree[i])
            /\ Len(stack) = Len(open) + 1
            /\ \A d \in 1..Len(open) : stack[d] = frames[open[d]]
            /\ \A i \in 1..node :
                  (tree[i].do /\ MatchingEnd(tree, i) <= node) =>
                      frames[MatchingEnd(tree, i) + 1] = frames[i]
            /\ node = Len(tree) =>
                  stack = <<[groups |-> <<"default">>, platforms |-> <<>>,
                             source |-> <<>>, conditional |-> FALSE]>>

\* The walk of `source do / group :a, :b do / gem / end / end` is over: the
\* frame of the group block had the groups of the block and the source of
\* its parent, the frame after the first `end` was the frame of the source
\* block, and the current frame is the root frame again.
C24_Witness ==
    /\ walker # <<>>
    /\ Len(tree) = 5
    /\ node = 5
    /\ tree[1].kind = "source"
    /\ tree[2].kind = "group" /\ ~ReturnsEarly(tree[2])
    /\ tree[3].kind = "gem"
    /\ tree[4].kind = "end"
    /\ tree[5].kind = "end"
    /\ frames[3].groups = <<"a", "b">> /\ frames[3].source = frames[2].source
    /\ frames[2].source # <<>> /\ frames[2].groups = <<"default">>
    /\ frames[5] = frames[2]
    /\ frames[6] = Current(newParserContextStack)
    /\ Len(walker[1].stack) = 1
    /\ Len(walker[1].gemfile.Dependencies) = 1

-----------------------------------------------------------------------------
(* GemfileParser: the scanner loop of parseContent, line by line *)

\* Bound: the number of lines of a scanned Gemfile.
MaxScanLines == 5

\* source 'https://u1' do / group :a, :b do / platforms :jruby do / if ... /
\* end / gem 'x' / gem 'y', '1', git: 'https://g.example/r.git'
ScanLines ==
    {Stmt("source", "https://u1", <<>>, TRUE),
     Stmt("group", "", <<Arg("sym", "", "a", <<>>), Arg("sym", "", "b", <<>>)>>, TRUE),
     Stmt("platforms", "", <<Arg("sym", "", "jruby", <<>>)>>, TRUE),
     Stmt("if", "", <<>>, TRUE),
     Stmt("end", "", <<>>, FALSE),
     Stmt("gem", "x", <<>>, FALSE),
     Stmt("gem", "y", <<Arg("str", "", "1", <<>>),
                        Arg("str", "git", "https://g.example/r.git", <<>>)>>, FALSE)}

\* currentSource and blockDepth of the loop
TrailOf(st) == [currentSource |-> st.currentSource, blockDepth |-> st.blockDepth]

InitScan ==
    /\ LockfileIdle
    /\ GemfileIdle
    /\ WriterIdle
    /\ GemspecIdle
    /\ FilterIdle
    /\ WalkIdle
    /\ \E n \in 0..MaxScanLines : \E stmts \in [1..n -> ScanLines] :
          /\ Balanced(stmts)
          /\ scanText = stmts
    /\ lineNum = 0
    /\ scanState = <<[currentGroups |-> <<"default">>, variables |-> << >>,
                      currentSource |-> <<>>, blockDepth |-> 0, result |-> NewParsedGemfile]>>
    /\ trail = <<[currentSource |-> <<>>, blockDepth |-> 0]>>

\* One iteration of `for scanner.Scan()`: an assignment sets the variable,
\* any other line is expanded and handed to parseLine, whose error ends the
\* loop.
ScanLine ==
    /\ scanState # <<>>
    /\ ~IsError(scanState[1])
    /\ lineNum < Len(scanText)
    /\ \E order \in Orders :
          LET st == scanState[1]
              var == parseVariable(scanText[lineNum + 1])
              expandedLine == expandVariables(scanText[lineNum + 1], st.variables, order)
              next == IF var[1] # ""
                      THEN [st EXCEPT !.variables =
                              [n \in DOMAIN @ \cup {var[1]} |-> IF n = var[1] THEN var[2] ELSE @[n]]]
                      ELSE parseLine(st, expandedLine, GemspecDir)
          IN  IF var[1] = "" /\ parseLineError(expandedLine) # ""
              THEN /\ scanState' = <<[err |-> parseLineError(expandedLine), line |-> lineNum + 1]>>
                   /\ trail' = trail
              ELSE /\ scanState' = <<next>>
                   /\ trail' = Append(trail, TrailOf(next))
    /\ lineNum' = lineNum + 1
    /\ UNCHANGED <<lockVars, gemVars, writerVars, gemspecVars, filterVars, walkVars, scanText>>

NextScan == ScanLine

SpecScan == InitScan /\ [][NextScan]_vars

\* The `source URL do` lines of a text that neither lie in another source
\* block nor hold one.
SourceBlocks(stmts) ==
    {i \in 1..Len(stmts) :
        /\ stmts[i].kind = "source" /\ stmts[i].do
        /\ \A k \in 1..Len(stmts) :
              (k # i /\ stmts[k].kind = "source" /\ stmts[k].do) =>
                  \/ MatchingEnd(stmts, k) < i
                  \/ MatchingEnd(stmts, i) < k}

\* C25: in the line parser the origin of a `source URL do` block is the
\* current origin before every line of the block up to and including the
\* `end` that closes it, whatever blocks (group, platforms, if) are opened
\* and closed in between; after that `end` there is no current origin and
\* the block depth is what it was before the source line.
C25_SourceBlockOrigin ==
    (scanState # <<>> /\ ~IsError(scanState[1])) =>
        \A i \in SourceBlocks(scanText) :
            i <= lineNum =>
                LET closing == MatchingEnd(scanText, i)
                    origin == <<NewSource("rubygems", <<scanText[i].name>>)>>
                IN  /\ \A k \in (i + 1)..closing :
                          k <= lineNum + 1 => trail[k].currentSource = origin
                    /\ closing <= lineNum =>
                          /\ trail[closing + 1].currentSource = <<>>
                          /\ trail[closing + 1].blockDepth = trail[i].blockDepth

-----------------------------------------------------------------------------
(* GemfileParser: variables on a line with quoted and bare occurrences *)

\* Bound: the number of arguments after the name on a gem line.
MaxArgs == 3

\* va / 'va' / vb / 'vb' / '1'
ExpandArgs ==
    {Arg("var", "", "va", <<>>), Arg("str", "", "va", <<>>),
     Arg("var", "", "vb", <<>>), Arg("str", "", "vb", <<>>),
     Arg("str", "", "1", <<>>)}

\* va = '2'  and  va = '2' / vb = '3'
ExpandHeads ==
    {<<Stmt("assign", "va", <<Arg("str", "", "2", <<>>)>>, FALSE)>>,
     <<Stmt("assign", "va", <<Arg("str", "", "2", <<>>)>>, FALSE),
       Stmt("assign", "vb", <<Arg("str", "", "3", <<>>)>>, FALSE)>>}

\* The assignments of the head, then the line gem 'r', <arguments>.
InitExpand ==
    /\ LockfileIdle
    /\ GemfileIdle
    /\ WriterIdle
    /\ GemspecIdle
    /\ FilterIdle
    /\ WalkIdle
    /\ \E head \in ExpandHeads : \E n \in 1..MaxArgs : \E args \in [1..n -> ExpandArgs] :
          scanText = Append(head, Stmt("gem", "r", args, FALSE))
    /\ lineNum = 0
    /\ scanState = <<[currentGroups |-> <<"default">>, variables |-> << >>,
                      currentSource |-> <<>>, blockDepth |-> 0, result |-> NewParsedGemfile]>>
    /\ trail = <<[currentSource |-> <<>>, blockDepth |-> 0]>>

SpecExpand == InitExpand /\ [][NextScan]_vars

\* The variables assigned by the lines before line n.
AssignedBefore(stmts, n) == {stmts[i].name : i \in {k \in 1..(n - 1) : stmts[k].kind = "assign"}}

\* The value of the last assignment to name before line n.
ValueBefore(stmts, name, n) ==
    LET at == {k \in 1..(n - 1) : stmts[k].kind = "assign" /\ stmts[k].name = name}
    IN  stmts[CHOOSE k \in at : \A j \in at : j <= k].args[1].s

\* The quoted strings of the arguments of line n once every bare occurrence
\* of an assigned variable stands for its quoted value and every quoted
\* string is left as it is.
ExpandedStrings(stmts, n) ==
    LET args == stmts[n].args
        read == SelectSeq([i \in 1..Len(args) |-> i],
                          LAMBDA i : \/ args[i].t = "str"
                                     \/ args[i].t = "var" /\ args[i].s \in AssignedBefore(stmts, n))
    IN  [i \in 1..Len(read) |->
            IF args[read[i]].t = "var" THEN ValueBefore(stmts, args[read[i]].s, n)
            ELSE args[read[i]].s]

\* C26: when the line parser has read the line `gem 'r', ...` that follows
\* the assignments, the strings it recorded for the line are those of the
\* line with every bare occurrence of an assigned name replaced by its value
\* and every quoted string unchanged, also when the line has both a quoted
\* and a bare occurrence of the same name.
C26_ExpandOutsideQuotes ==
    (scanState # <<>> /\ ~IsError(scanState[1]) /\ lineNum = Len(scanText)
        /\ scanText # <<>> /\ scanText[Len(scanText)].kind = "gem") =>
        /\ Len(scanState[1].result.Dependencies) = 1
        /\ scanState[1].result.Dependencies[1].Constraints =
               ExpandedStrings(scanText, Len(scanText))

-----------------------------------------------------------------------------
(* GemfileParser: the constraints of a gem line with options *)

\* '1' / '2' / require: 'rq' / path: 'p' / github: 'o/r' / groups: [:a] /
\* platforms: :jruby
OptionArgs ==
    {Arg("str", "", "1", <<>>), Arg("str", "", "2", <<>>),
     Arg("str", "require", "rq", <<>>), Arg("str", "path", "p", <<>>),
     Arg("str", "github", "o/r", <<>>), Arg("arr", "groups", "", <<"a">>),
     Arg("sym", "platforms", "jruby", <<>>)}

\* Ruby's argument list: the positional arguments come first and no key is
\* given twice.
WellFormedArgs(args) ==
    /\ \A i, j \in 1..Len(args) : (i < j /\ args[i].key # "") => args[j].key # ""
    /\ \A i, j \in 1..Len(args) : (i < j /\ args[i].key # "") => args[i].key # args[j].key

\* The one line gem 'r', <arguments>.
InitOptions ==
    /\ LockfileIdle
    /\ GemfileIdle
    /\ WriterIdle
    /\ GemspecIdle
    /\ FilterIdle
    /\ WalkIdle
    /\ \E n \in 1..MaxArgs : \E args \in [1..n -> OptionArgs] :
          /\ WellFormedArgs(args)
          /\ scanText = <<Stmt("gem", "r", args, FALSE)>>
    /\ lineNum = 0
    /\ scanState = <<[currentGroups |-> <<"default">>, variables |-> << >>,
                      currentSource |-> <<>>, blockDepth |-> 0, result |-> NewParsedGemfile]>>
    /\ trail = <<[currentSource |-> <<>>, blockDepth |-> 0]>>

SpecOptions == InitOptions /\ [][NextScan]_vars

\* The quoted strings between the name and the first option of the line.
StringsBeforeOptions(args) ==
    LET before == SelectSeq([i \in 1..Len(args) |-> i],
                            LAMBDA i : /\ args[i].t = "str"
                                       /\ \A j \in 1..i : args[j].key = "")
    IN  [i \in 1..Len(before) |-> args[before[i]].s]

\* C27: the constraints the line parser records for the line gem 'r', ...
\* are the quoted strings between the name and the first of the options
\* require:, github:, path:, groups:, platforms: of the line, in order, and
\* never the quoted value of an option, in whatever order the options come.
C27_ConstraintsBeforeOptions ==
    (scanState # <<>> /\ ~IsError(scanState[1]) /\ lineNum = 1) =>
        /\ Len(scanState[1].result.Dependencies) = 1
        /\ scanState[1].result.Dependencies[1].Constraints =
               StringsBeforeOptions(scanText[1].args)

-----------------------------------------------------------------------------
(* Editing the Gemfile: AddGem, then RemoveGem of the same name *)

\* AddGem returned nil and RemoveGem was then called with the name it added.
AddedThenRemoved ==
    /\ Len(history) = 2
    /\ history[1].op = "AddGem" /\ history[1].err = ""
    /\ history[2].op = "RemoveGem" /\ history[2].name = history[1].name

\* C28: when AddGem(dep) has succeeded on a file and RemoveGem(dep.Name) is
\* applied next, RemoveGem succeeds and the file has, line for line, the
\* content it had before AddGem.
C28_AddThenRemoveRestores ==
    AddedThenRemoved =>
        /\ history[2].err = ""
        /\ gemfileContent = history[1].before

\* A gem with a group and a constraint was added to a file that declares
\* other gems, one of them in a block and one with a name that starts with
\* the same piece, and was removed again.
C28_Witness ==
    /\ AddedThenRemoved
    /\ history[1].dep[1].Constraints # <<>>
    /\ ~isDefaultGroup(history[1].dep[1].Groups)
    /\ Len(history[1].before) = MaxFileLines
    /\ Len(history[2].before) = MaxFileLines + 1
    /\ \E i \in 1..Len(history[1].before) : history[1].before[i].word = "group"
    /\ \E i \in 1..Len(history[1].before) : history[1].before[i].word = "gem"
    /\ history[2].err = ""
    /\ gemfileContent = history[1].before

-----------------------------------------------------------------------------
(* Write and the Lockfile it is given *)

\* The names of a list of entries or dependencies, in order.
NamesOf(list) == [i \in 1..Len(list) |-> list[i].Name]

-----------------------------------------------------------------------------
(* The remote of the registry blocks *)

\* The `remote:` values of the GEM blocks of a text, in text order.
RegistryRemotes(lines) ==
    [i \in 1..Len(BlocksOfKind(lines, "GEM")) |-> LastValue(BlocksOfKind(lines, "GEM")[i], "remote")]

\* The header lines of what writeGemSection wrote.
WrittenGemHeaders == SelectSeq(output[1], LAMBDA line : line.k = "hdr")

\* C30: every GemSpec that Parse returns has an empty SourceURL, whatever
\* the `remote:` lines of the GEM blocks of the text say, and Write applied
\* to the parsed Lockfile writes at most one GEM block, whose remote is
\* https://rubygems.org/.
C30_RegistryRemoteNotRecorded ==
    /\ pc \in {"parsed", "written", "reparsed"} =>
          \A i \in 1..Len(lockfile.GemSpecs) : lockfile.GemSpecs[i].SourceURL = ""
    /\ pc \in {"written", "reparsed"} =>
          /\ Len(WrittenGemHeaders) <= 1
          /\ Len(WrittenGemHeaders) = 1 <=> Len(lockfile.GemSpecs) > 0
          /\ \A i \in 1..Len(output[1]) :
                HasKeyPrefix(output[1][i], "remote") =>
                    output[1][i].v = <<"https://rubygems.org/">>

\* The text had two GEM blocks, one of them with the remote
\* https://gems.example/, and Write wrote one GEM block with all their
\* entries under https://rubygems.org/.
C30_Witness ==
    /\ pc = "written"
    /\ Len(RegistryRemotes(input)) = 2
    /\ \E i \in 1..2 : RegistryRemotes(input)[i] = <<"https://gems.example/">>
    /\ Len(lockfile.GemSpecs) >= 4
    /\ Len(WrittenGemHeaders) = 1
    /\ \E i \in 1..Len(output[1]) :
          HasKeyPrefix(output[1][i], "remote") /\ output[1][i].v = <<"https://rubygems.org/">>

=============================================================================
